---------------------------- MODULE Spec2Model ----------------------------
(***************************************************************************)
(* Verification model of the whatsapp-cloud-api crate's boundary layer:    *)
(*   - webhooks::verify_signature and its private hmac_sha256::HMAC::mac,  *)
(*   - serde deserialization of the webhook wire types,                    *)
(*   - WebhookPayload::events,                                             *)
(*   - Client's request methods, Client::handle_response, the conversion   *)
(*     of ApiErrorResponse into Error, and MediaApi::download.             *)
(*                                                                         *)
(* Conventions.  Strings that are compared character by character (the     *)
(* signature header, the hex digest) and byte slices are sequences of      *)
(* bytes 0..255.  Option<T> is a sequence of length 0 (None) or 1 (Some).  *)
(* A u64 is four 16-bit limbs, least significant first.                    *)
(***************************************************************************)
EXTENDS Integers, Sequences, FiniteSets, TLC

VARIABLES
    \* ---- one call of verify_signature (src/src/webhooks.rs:723-738)
    payload,      \* payload: &[u8]
    signature,    \* signature: &str
    app_secret,   \* app_secret: &str
    pc,           \* position inside verify_signature
    sig,          \* let sig (line 727)
    key,          \* let key (line 730): [u8; 32]
    computed,     \* let mut computed (lines 731-734)
    cmp_i,        \* index of the byte the comparison of line 737 looks at next
    cmp_steps,    \* number of byte comparisons performed by line 737
    result,       \* the returned bool: None while running, Some(bool) after
    \* ---- one inbound webhook body on its way through the crate
    raw,          \* the JSON value of the request body
    webhook,      \* None, or Some(result of serde_json::from_str(body))
    events,       \* None, or Some(the Vec returned by webhook.events())
    printed,      \* None, or Some(what the documented handle_webhook returned:
                  \* Err, or Ok(the senders it printed))
    \* ---- one resource operation of a Client (src/src/client.rs, media.rs)
    access_token, \* ClientInner.access_token
    op,           \* the operation: which Client method carries it
    api_pc,       \* position inside the operation
    requests,     \* the HTTP requests sent so far
    response,     \* None, or Some(the reqwest::Response being handled)
    outcome,      \* None, or Some(the Result the operation returned)
    media_info,   \* let media_info of MediaApi::download (media.rs:130)
    upload,       \* None, or the arguments of MediaApi::upload_base64
    events2,      \* None, or Some(the Vec a second webhook.events() returned)
    \* ---- a Client and the handles made from it (src/src/client.rs:22-111)
    args,         \* the constructor called and its arguments
    clients,      \* the ClientInner each live handle points to, eldest first
    debug_out,    \* None, or Some(the text format!("{:?}", client) gave)
    \* ---- concurrent invocations of the stateless functions
    threads       \* per thread: its call, its position and its locals

sigVars == <<payload, signature, app_secret, pc, sig, key, computed,
             cmp_i, cmp_steps, result>>

hookVars == <<raw, webhook, events, printed, events2>>

apiVars == <<access_token, op, api_pc, requests, response, outcome,
             media_info, upload>>

clientVars == <<args, clients, debug_out>>

threadVars == <<threads>>

vars == <<payload, signature, app_secret, pc, sig, key, computed,
          cmp_i, cmp_steps, result, raw, webhook, events, printed,
          access_token, op, api_pc, requests, response, outcome,
          media_info, upload, events2, args, clients, debug_out, threads>>

None == <<>>
Some(x) == <<x>>
IsSome(o) == Len(o) = 1
Unwrap(o) == o[1]

(***************************************************************************)
(* 64-bit arithmetic of std's DefaultHasher (SipHash-1-3, keys 0/0), which *)
(* hmac_sha256::HMAC::mac uses in place of a keyed cryptographic hash.     *)
(***************************************************************************)
W16 == 65536

Pow2(n) == 2^n

\* bit i of a
Bit(a, i) == (a \div Pow2(i)) % 2

\* a ^ b on bits lo..hi, as a number
XorBits(a, b, lo) ==
      ((Bit(a, lo) + Bit(b, lo)) % 2) * Pow2(lo)
    + ((Bit(a, lo + 1) + Bit(b, lo + 1)) % 2) * Pow2(lo + 1)
    + ((Bit(a, lo + 2) + Bit(b, lo + 2)) % 2) * Pow2(lo + 2)
    + ((Bit(a, lo + 3) + Bit(b, lo + 3)) % 2) * Pow2(lo + 3)

\* u16 ^ u16
Xor16(a, b) ==
    XorBits(a, b, 0) + XorBits(a, b, 4) + XorBits(a, b, 8) + XorBits(a, b, 12)

\* u64 ^ u64
XorW(a, b) == <<Xor16(a[1], b[1]), Xor16(a[2], b[2]), Xor16(a[3], b[3]), Xor16(a[4], b[4])>>

\* u64::wrapping_add
AddW(a, b) ==
    LET s1 == a[1] + b[1]
        s2 == a[2] + b[2] + (s1 \div W16)
        s3 == a[3] + b[3] + (s2 \div W16)
        s4 == a[4] + b[4] + (s3 \div W16)
    IN  <<s1 % W16, s2 % W16, s3 % W16, s4 % W16>>

\* u64::rotate_left(r), 0 <= r < 64
RotlW(a, r) ==
    LET q == r \div 16
        s == r % 16
        Limb(i) == a[(i % 4) + 1]                \* limb i of 0..3, cyclic
        Out(i) == ((Limb(i - q + 8) % Pow2(16 - s)) * Pow2(s))
                  + (Limb(i - q + 7) \div Pow2(16 - s))
    IN  <<Out(0), Out(1), Out(2), Out(3)>>

\* F applied to the value of e: e is evaluated once, whatever F does with it
Then(e, F(_)) == CHOOSE y \in {F(x) : x \in {e}} : TRUE

\* half of the compress! macro of core::hash::sip on the words x0..x3:
\*   x0 += x1; x2 += x3; x1 = rotl(x1, r1) ^ x0; x3 = rotl(x3, r2) ^ x2;
\*   x0 = rotl(x0, 32)
SipHalf(x0, x1, x2, x3, r1, r2) ==
    <<RotlW(AddW(x0, x1), 32), XorW(RotlW(x1, r1), AddW(x0, x1)),
      AddW(x2, x3), XorW(RotlW(x3, r2), AddW(x2, x3))>>

\* the compress! macro: one SipRound on v = <<v0, v1, v2, v3>>.  Its second
\* half is the first with v0 and v2 exchanged and the rotations 17 and 21.
SipRound(v) ==
    Then(SipHalf(v[1], v[2], v[3], v[4], 13, 16),
         LAMBDA h : Then(SipHalf(h[3], h[2], h[1], h[4], 17, 21),
                         LAMBDA g : <<g[3], g[2], g[1], g[4]>>))

\* one message word: v3 ^= m; c_rounds (1); v0 ^= m
SipCompress(v, m) ==
    Then(SipRound(<<v[1], v[2], v[3], XorW(v[4], m)>>),
         LAMBDA r : <<XorW(r[1], m), r[2], r[3], r[4]>>)

\* little-endian u64 of up to 8 bytes of s starting at position p (1-based),
\* bytes past the end read as 0; top >= 0 replaces the most significant byte
WordAt(s, p, top) ==
    LET B(j) == IF p + j <= Len(s) THEN s[p + j] ELSE 0
    IN  <<B(0) + 256 * B(1), B(2) + 256 * B(3), B(4) + 256 * B(5),
          B(6) + 256 * (IF top >= 0 THEN top ELSE B(7))>>

\* Hasher::write over the whole stream s from position p on, then the last
\* (partial) word of finish(), whose top byte is the stream length mod 256
RECURSIVE SipAbsorb(_, _, _)
SipAbsorb(v, s, p) ==
    IF p + 7 <= Len(s)
    THEN Then(SipCompress(v, WordAt(s, p, -1)),
              LAMBDA r : SipAbsorb(r, s, p + 8))
    ELSE SipCompress(v, WordAt(s, p, Len(s) % 256))

\* the rest of finish(): v2 ^= 0xff; d_rounds (3); v0 ^ v1 ^ v2 ^ v3
SipFinish(a) ==
    Then(<<a[1], a[2], XorW(a[3], <<255, 0, 0, 0>>), a[4]>>,
         LAMBDA f0 : Then(SipRound(f0),
         LAMBDA f1 : Then(SipRound(f1),
         LAMBDA f2 : Then(SipRound(f2),
         LAMBDA f : XorW(XorW(f[1], f[2]), XorW(f[3], f[4]))))))

\* DefaultHasher::new() (SipHasher13 with both keys 0) ... finish() over the
\* bytes s written to it
SipHash13(s) ==
    LET v0 == <<25973, 28787, 28005, 29551>>     \* 0x736f6d6570736575
        v1 == <<28525, 28260, 29281, 25711>>     \* 0x646f72616e646f6d
        v2 == <<29281, 28261, 26469, 27769>>     \* 0x6c7967656e657261
        v3 == <<25971, 31092, 25698, 29797>>     \* 0x7465646279746573
    IN  Then(SipAbsorb(<<v0, v1, v2, v3>>, s, 1), SipFinish)

\* u64::to_le_bytes / usize::to_ne_bytes on a little-endian target
LeBytes(w) ==
    <<w[1] % 256, w[1] \div 256, w[2] % 256, w[2] \div 256,
      w[3] % 256, w[3] \div 256, w[4] % 256, w[4] \div 256>>

\* <[u8] as Hash>::hash: the length prefix (a usize) followed by the bytes
HashSlice(s) == LeBytes(<<Len(s) % W16, (Len(s) \div W16) % W16, 0, 0>>) \o s

Zeros(n) == SubSeq(<<0, 0, 0, 0, 0, 0, 0, 0, 0, 0, 0, 0, 0, 0, 0, 0,
                     0, 0, 0, 0, 0, 0, 0, 0, 0, 0, 0, 0, 0, 0, 0, 0>>, 1, n)

\* hmac_sha256::HMAC::mac(data, key): key.hash, data.hash, finish, then
\* result = [0u8; 32] with result[..8] = hash.to_le_bytes()
mac(data, k) ==
    Then(HashSlice(k) \o HashSlice(data),
         LAMBDA s : Then(SipHash13(s), LAMBDA hash : LeBytes(hash) \o Zeros(24)))

(***************************************************************************)
(* verify_signature (src/src/webhooks.rs:723-738)                          *)
(***************************************************************************)
\* "sha256=" as bytes
Sha256Prefix == <<115, 104, 97, 50, 53, 54, 61>>

\* str::strip_prefix(p).unwrap_or(s)
StripPrefix(s, p) ==
    IF Len(s) >= Len(p) /\ SubSeq(s, 1, Len(p)) = p
    THEN SubSeq(s, Len(p) + 1, Len(s))
    ELSE s

\* one hex digit of "{:02x}": lowercase
HexDigit(n) == IF n < 10 THEN 48 + n ELSE 87 + n

\* for byte in key { write!(&mut computed, "{:02x}", byte) }, from byte i on
RECURSIVE HexFrom(_, _)
HexFrom(bytes, i) ==
    IF i > Len(bytes) THEN <<>>
    ELSE <<HexDigit(bytes[i] \div 16), HexDigit(bytes[i] % 16)>>
         \o HexFrom(bytes, i + 1)

HexEncode(bytes) == HexFrom(bytes, 1)

\* `computed == sig` is str equality: equal lengths, then the bytes are
\* compared front to back and the comparison stops at the first difference.
\* CompareNext(a, b, i) is what the comparison does when it stands at byte i:
\* "equal" (all bytes seen), "differ" (stop now) or "next" (look at byte i+1).
CompareNext(a, b, i) ==
    IF i > Len(a) THEN "equal"
    ELSE IF a[i] # b[i] THEN "differ"
    ELSE "next"

\* line 727
StripStep ==
    /\ pc = "strip"
    /\ sig' = StripPrefix(signature, Sha256Prefix)
    /\ pc' = "mac"
    /\ UNCHANGED <<payload, signature, app_secret, key, computed, cmp_i,
                   cmp_steps, result>>
    /\ UNCHANGED hookVars
    /\ UNCHANGED apiVars
    /\ UNCHANGED clientVars
    /\ UNCHANGED threadVars

\* line 730
MacStep ==
    /\ pc = "mac"
    /\ key' = mac(payload, app_secret)
    /\ pc' = "hex"
    /\ UNCHANGED <<payload, signature, app_secret, sig, computed, cmp_i,
                   cmp_steps, result>>
    /\ UNCHANGED hookVars
    /\ UNCHANGED apiVars
    /\ UNCHANGED clientVars
    /\ UNCHANGED threadVars

\* lines 731-734
HexStep ==
    /\ pc = "hex"
    /\ computed' = HexEncode(key)
    /\ pc' = "cmp_len"
    /\ UNCHANGED <<payload, signature, app_secret, sig, key, cmp_i,
                   cmp_steps, result>>
    /\ UNCHANGED hookVars
    /\ UNCHANGED apiVars
    /\ UNCHANGED clientVars
    /\ UNCHANGED threadVars

\* line 737, the length test of str equality
CompareLenStep ==
    /\ pc = "cmp_len"
    /\ IF Len(computed) # Len(sig)
       THEN /\ result' = Some(FALSE)
            /\ pc' = "done"
            /\ UNCHANGED cmp_i
       ELSE /\ cmp_i' = 1
            /\ pc' = "cmp_bytes"
            /\ UNCHANGED result
    /\ UNCHANGED <<payload, signature, app_secret, sig, key, computed,
                   cmp_steps>>
    /\ UNCHANGED hookVars
    /\ UNCHANGED apiVars
    /\ UNCHANGED clientVars
    /\ UNCHANGED threadVars

\* line 737, one byte of the comparison
CompareByteStep ==
    /\ pc = "cmp_bytes"
    /\ LET next == CompareNext(computed, sig, cmp_i)
       IN  /\ cmp_steps' = IF next = "equal" THEN cmp_steps ELSE cmp_steps + 1
           /\ cmp_i' = IF next = "next" THEN cmp_i + 1 ELSE cmp_i
           /\ pc' = IF next = "next" THEN "cmp_bytes" ELSE "done"
           /\ result' = IF next = "next" THEN result ELSE Some(next = "equal")
    /\ UNCHANGED <<payload, signature, app_secret, sig, key, computed>>
    /\ UNCHANGED hookVars
    /\ UNCHANGED apiVars
    /\ UNCHANGED clientVars
    /\ UNCHANGED threadVars

\* verify_signature as a function of its three arguments
VerifySignature(body, header, secret) ==
    HexEncode(mac(body, secret)) = StripPrefix(header, Sha256Prefix)

(***************************************************************************)
(* Reference digests: HMAC-SHA256 (RFC 2104 over FIPS 180-4) of the bodies *)
(* and secrets used below, as the sending platform computes them.  The     *)
(* first pair is test case 2 of RFC 4231.                                  *)
(***************************************************************************)
SecretJefe == <<74, 101, 102, 101>>
SecretK == <<107>>
BodyRfc == <<119, 104, 97, 116, 32, 100, 111, 32, 121, 97, 32, 119, 97, 110,
             116, 32, 102, 111, 114, 32, 110, 111, 116, 104, 105, 110, 103, 63>>
BodyA == <<97>>

SigSecrets == {SecretJefe, SecretK}
SigBodies == {BodyRfc, BodyA}

\* request bodies of the inbound flow
\* {"object":"whatsapp_business_account","entry":[]}
BodyEmptyEnvelope ==
    <<123, 34, 111, 98, 106, 101, 99, 116, 34, 58, 34, 119, 104, 97, 116, 115,
    97, 112, 112, 95, 98, 117, 115, 105, 110, 101, 115, 115, 95, 97, 99, 99,
    111, 117, 110, 116, 34, 44, 34, 101, 110, 116, 114, 121, 34, 58, 91, 93,
    125>>

\* a webhook carrying one text message, as compact JSON text:
\*   {"object":"whatsapp_business_account","entry":[{"id":"waba.1","chang
\*   es":[{"field":"messages","value":{"messaging_product":"whatsapp","me
\*   tadata":{"display_phone_number":"15550001111","phone_number_id":"100
\*   200300"},"messages":[{"from":"628111","id":"wamid.1","timestamp":"17
\*   00000000","type":"text","text":{"body":"Hello, World!"}}]}}]}]}
BodyTextWebhook ==
    <<123, 34, 111, 98, 106, 101, 99, 116, 34, 58, 34, 119, 104, 97, 116, 115,
    97, 112, 112, 95, 98, 117, 115, 105, 110, 101, 115, 115, 95, 97, 99, 99,
    111, 117, 110, 116, 34, 44, 34, 101, 110, 116, 114, 121, 34, 58, 91, 123,
    34, 105, 100, 34, 58, 34, 119, 97, 98, 97, 46, 49, 34, 44, 34, 99,
    104, 97, 110, 103, 101, 115, 34, 58, 91, 123, 34, 102, 105, 101, 108, 100,
    34, 58, 34, 109, 101, 115, 115, 97, 103, 101, 115, 34, 44, 34, 118, 97,
    108, 117, 101, 34, 58, 123, 34, 109, 101, 115, 115, 97, 103, 105, 110, 103,
    95, 112, 114, 111, 100, 117, 99, 116, 34, 58, 34, 119, 104, 97, 116, 115,
    97, 112, 112, 34, 44, 34, 109, 101, 116, 97, 100, 97, 116, 97, 34, 58,
    123, 34, 100, 105, 115, 112, 108, 97, 121, 95, 112, 104, 111, 110, 101, 95,
    110, 117, 109, 98, 101, 114, 34, 58, 34, 49, 53, 53, 53, 48, 48, 48,
    49, 49, 49, 49, 34, 44, 34, 112, 104, 111, 110, 101, 95, 110, 117, 109,
    98, 101, 114, 95, 105, 100, 34, 58, 34, 49, 48, 48, 50, 48, 48, 51,
    48, 48, 34, 125, 44, 34, 109, 101, 115, 115, 97, 103, 101, 115, 34, 58,
    91, 123, 34, 102, 114, 111, 109, 34, 58, 34, 54, 50, 56, 49, 49, 49,
    34, 44, 34, 105, 100, 34, 58, 34, 119, 97, 109, 105, 100, 46, 49, 34,
    44, 34, 116, 105, 109, 101, 115, 116, 97, 109, 112, 34, 58, 34, 49, 55,
    48, 48, 48, 48, 48, 48, 48, 48, 34, 44, 34, 116, 121, 112, 101, 34,
    58, 34, 116, 101, 120, 116, 34, 44, 34, 116, 101, 120, 116, 34, 58, 123,
    34, 98, 111, 100, 121, 34, 58, 34, 72, 101, 108, 108, 111, 44, 32, 87,
    111, 114, 108, 100, 33, 34, 125, 125, 93, 125, 125, 93, 125, 93, 125>>

\* not json
BodyNotJson ==
    <<110, 111, 116, 32, 106, 115, 111, 110>>

FlowBodies == {BodyEmptyEnvelope, BodyTextWebhook, BodyNotJson}

HmacSha256(body, secret) ==
    CASE body = BodyRfc /\ secret = SecretJefe ->
           <<91, 220, 193, 70, 191, 96, 117, 78, 106, 4, 36, 38, 8, 149, 117,
             199, 90, 0, 63, 8, 157, 39, 57, 131, 157, 236, 88, 185, 100, 236,
             56, 67>>
      [] body = BodyA /\ secret = SecretJefe ->
           <<113, 254, 198, 193, 28, 232, 229, 104, 51, 38, 192, 179, 217, 166,
             228, 91, 238, 17, 59, 50, 171, 194, 184, 251, 29, 232, 226, 193,
             47, 96, 123, 44>>
      [] body = BodyRfc /\ secret = SecretK ->
           <<150, 190, 144, 97, 102, 4, 183, 72, 152, 205, 69, 107, 15, 1, 152,
             37, 190, 52, 111, 57, 93, 114, 117, 136, 27, 81, 168, 35, 153,
             205, 166, 113>>
      [] body = BodyA /\ secret = SecretK ->
           <<120, 218, 145, 81, 30, 103, 85, 135, 245, 185, 223, 120, 190, 222,
             186, 245, 86, 13, 162, 171, 184, 129, 98, 238, 135, 93, 205, 247,
             68, 149, 29, 158>>
      [] body = BodyEmptyEnvelope /\ secret = SecretK ->
           <<59, 122, 17, 78, 242, 157, 0, 8, 212, 40, 171, 130, 125, 67, 47, 240,
             221, 236, 213, 211, 232, 87, 125, 116, 74, 121, 99, 117, 63, 190, 133, 235>>
      [] body = BodyTextWebhook /\ secret = SecretK ->
           <<91, 191, 71, 97, 197, 160, 44, 151, 241, 18, 100, 161, 56, 251, 71, 145,
             236, 235, 221, 43, 200, 252, 253, 255, 161, 41, 134, 216, 161, 163, 160, 87>>
      [] body = BodyNotJson /\ secret = SecretK ->
           <<188, 76, 126, 222, 51, 143, 211, 191, 124, 73, 4, 130, 18, 166, 17, 107,
             196, 94, 235, 250, 201, 59, 255, 100, 105, 90, 234, 64, 146, 217, 249, 228>>

\* the header the platform sends for a body: lowercase hex of the digest
HmacHex(body, secret) == HexEncode(HmacSha256(body, secret))

(***************************************************************************)
(* Inputs of verify_signature                                              *)
(***************************************************************************)
\* byte b with bit k flipped
FlipBit(b, k) == IF (b \div Pow2(k)) % 2 = 1 THEN b - Pow2(k) ELSE b + Pow2(k)

\* s with bit k of its i-th byte flipped
FlipAt(s, i, k) == [s EXCEPT ![i] = FlipBit(s[i], k)]

\* all single-bit mutations of a byte slice
BodyFlips(s) == {FlipAt(s, i, k) : i \in 1..Len(s), k \in 0..7}

\* all single-bit mutations of a header that leave it a str (ASCII)
HeaderFlips(s) == {FlipAt(s, i, k) : i \in 1..Len(s), k \in 0..6}

\* the digest the code computes and the platform's digest, bare and prefixed
ValidHeaders(b, s) ==
    LET own  == HexEncode(mac(b, s))
        real == HmacHex(b, s)
    IN  {own, Sha256Prefix \o own, real, Sha256Prefix \o real}

\* headers that are no digest at all
MalformedHeaders(b, s) ==
    LET own == HexEncode(mac(b, s))
    IN  {<<>>, Sha256Prefix, SubSeq(own, 1, 63), own \o <<48>>,
         Sha256Prefix \o Sha256Prefix \o own}

\* <<payload, signature, app_secret>>: for every body and secret the valid
\* and the malformed headers; every single-bit mutation of the body under
\* each valid header; and, for the short body under the short secret, every
\* single-bit mutation of each valid header
SigInputs ==
    UNION {
        {<<b, h, s>> : h \in ValidHeaders(b, s) \cup MalformedHeaders(b, s)}
        \cup {<<b2, h, s>> : b2 \in BodyFlips(b), h \in ValidHeaders(b, s)}
        : b \in SigBodies, s \in SigSecrets }
    \cup {<<BodyA, h2, SecretK>> :
              h2 \in UNION {HeaderFlips(h) : h \in ValidHeaders(BodyA, SecretK)}}

InitSig ==
    /\ \E in \in SigInputs :
          /\ payload = in[1]
          /\ signature = in[2]
          /\ app_secret = in[3]
    /\ pc = "strip"
    /\ sig = <<>>
    /\ key = <<>>
    /\ computed = <<>>
    /\ cmp_i = 0
    /\ cmp_steps = 0
    /\ result = None
    /\ raw = None
    /\ webhook = None
    /\ events = None
    /\ printed = None
    /\ access_token = ""
    /\ op = "none"
    /\ api_pc = "idle"
    /\ requests = <<>>
    /\ response = None
    /\ outcome = None
    /\ media_info = None
    /\ upload = None
    /\ events2 = None
    /\ args = None
    /\ clients = <<>>
    /\ debug_out = None
    /\ threads = <<>>

NextSig ==
    \/ StripStep
    \/ MacStep
    \/ HexStep
    \/ CompareLenStep
    \/ CompareByteStep

SpecSig == InitSig /\ [][NextSig]_vars

(***************************************************************************)
(* JSON values and serde deserialization of the webhook wire types         *)
(* (src/src/webhooks.rs:28-486).  A Result is <<>> for Err and <<v>> for   *)
(* Ok(v).  A struct value is a function from its Rust field names.         *)
(***************************************************************************)
JStr(x) == [str |-> x]
JNum(n) == [num |-> n]
JBool(b) == [bool |-> b]
JNull == [null |-> TRUE]
JArr(xs) == [arr |-> xs]
JObj(fields) == [obj |-> fields]
\* the kind of a JSON value
JKind(j) == CHOOSE k \in DOMAIN j : TRUE

Err == <<>>
Ok(x) == <<x>>
IsOk(r) == Len(r) = 1

TString == [k |-> "String"]
TF64 == [k |-> "f64"]
TI32 == [k |-> "i32"]
TI64 == [k |-> "i64"]
TBool == [k |-> "bool"]
TOption(ty) == [k |-> "Option", of |-> ty]
TVec(ty) == [k |-> "Vec", of |-> ty]
TStruct(n) == [k |-> "Struct", name |-> n]

\* a field whose JSON name is its Rust name
Fld(n, ty) == [rust |-> n, json |-> n, ty |-> ty]
\* #[serde(rename = "...")]
Renamed(rust, json, ty) == [rust |-> rust, json |-> json, ty |-> ty]
\* #[serde(default)] pub f: Option<T>
Opt(n, ty) == Fld(n, TOption(ty))

\* the fields of each struct deriving Deserialize, in declaration order
StructFields(name) ==
    CASE name = "WebhookPayload" ->
           <<Fld("object", TString), Fld("entry", TVec(TStruct("WebhookEntry")))>>
      [] name = "WebhookEntry" ->
           <<Fld("id", TString), Fld("changes", TVec(TStruct("WebhookChange")))>>
      [] name = "WebhookChange" ->
           <<Fld("value", TStruct("WebhookValue")), Fld("field", TString)>>
      [] name = "WebhookValue" ->
           <<Fld("messaging_product", TString),
             Fld("metadata", TStruct("WebhookMetadata")),
             Opt("contacts", TVec(TStruct("WebhookContact"))),
             Opt("messages", TVec(TStruct("WebhookMessage"))),
             Opt("statuses", TVec(TStruct("WebhookStatus"))),
             Opt("errors", TVec(TStruct("WebhookError")))>>
      [] name = "WebhookMetadata" ->
           <<Fld("display_phone_number", TString), Fld("phone_number_id", TString)>>
      [] name = "WebhookContact" ->
           <<Fld("profile", TStruct("WebhookProfile")), Fld("wa_id", TString)>>
      [] name = "WebhookProfile" ->
           <<Fld("name", TString)>>
      [] name = "WebhookMessage" ->
           <<Fld("from", TString), Fld("id", TString), Fld("timestamp", TString),
             Renamed("message_type", "type", TString),
             Opt("text", TStruct("TextMessage")),
             Opt("image", TStruct("MediaMessage")),
             Opt("video", TStruct("MediaMessage")),
             Opt("audio", TStruct("MediaMessage")),
             Opt("document", TStruct("DocumentMessage")),
             Opt("sticker", TStruct("MediaMessage")),
             Opt("location", TStruct("LocationMessage")),
             Opt("contacts", TVec(TStruct("ContactMessage"))),
             Opt("reaction", TStruct("ReactionMessage")),
             Opt("interactive", TStruct("InteractiveResponse")),
             Opt("button", TStruct("ButtonResponse")),
             Opt("context", TStruct("MessageContext")),
             Opt("identity", TStruct("IdentityInfo")),
             Opt("referral", TStruct("ReferralInfo")),
             Opt("order", TStruct("OrderInfo")),
             Opt("system", TStruct("SystemMessage")),
             Opt("errors", TVec(TStruct("WebhookError")))>>
      [] name = "TextMessage" ->
           <<Fld("body", TString)>>
      [] name = "MediaMessage" ->
           <<Fld("id", TString), Fld("mime_type", TString),
             Opt("sha256", TString), Opt("caption", TString)>>
      [] name = "DocumentMessage" ->
           <<Fld("id", TString), Fld("mime_type", TString),
             Opt("sha256", TString), Opt("filename", TString),
             Opt("caption", TString)>>
      [] name = "LocationMessage" ->
           <<Fld("latitude", TF64), Fld("longitude", TF64),
             Opt("name", TString), Opt("address", TString)>>
      [] name = "ContactMessage" ->
           <<Fld("name", TStruct("ContactName")),
             Opt("phones", TVec(TStruct("ContactPhone")))>>
      [] name = "ContactName" ->
           <<Fld("formatted_name", TString), Opt("first_name", TString),
             Opt("last_name", TString)>>
      [] name = "ContactPhone" ->
           <<Fld("phone", TString),
             Renamed("phone_type", "type", TOption(TString)),
             Opt("wa_id", TString)>>
      [] name = "ReactionMessage" ->
           <<Fld("message_id", TString), Fld("emoji", TString)>>
      [] name = "InteractiveResponse" ->
           <<Renamed("response_type", "type", TString),
             Opt("button_reply", TStruct("ButtonReply")),
             Opt("list_reply", TStruct("ListReply"))>>
      [] name = "ButtonReply" ->
           <<Fld("id", TString), Fld("title", TString)>>
      [] name = "ListReply" ->
           <<Fld("id", TString), Fld("title", TString), Opt("description", TString)>>
      [] name = "ButtonResponse" ->
           <<Fld("text", TString), Fld("payload", TString)>>
      [] name = "MessageContext" ->
           <<Fld("message_id", TString), Opt("from", TString),
             Opt("forwarded", TBool), Opt("frequently_forwarded", TBool)>>
      [] name = "IdentityInfo" ->
           <<Fld("acknowledged", TBool), Fld("created_timestamp", TString),
             Fld("hash", TString)>>
      [] name = "ReferralInfo" ->
           <<Fld("source_url", TString), Fld("source_type", TString),
             Fld("source_id", TString), Opt("headline", TString),
             Opt("body", TString), Opt("media_type", TString),
             Opt("image_url", TString), Opt("video_url", TString),
             Opt("thumbnail_url", TString)>>
      [] name = "OrderInfo" ->
           <<Fld("catalog_id", TString),
             Fld("product_items", TVec(TStruct("ProductItem"))),
             Opt("text", TString)>>
      [] name = "ProductItem" ->
           <<Fld("product_retailer_id", TString), Fld("quantity", TI32),
             Fld("item_price", TString), Fld("currency", TString)>>
      [] name = "SystemMessage" ->
           <<Opt("body", TString), Opt("identity", TString),
             Opt("new_wa_id", TString),
             Renamed("system_type", "type", TOption(TString)),
             Opt("customer", TString)>>
      [] name = "WebhookStatus" ->
           <<Fld("id", TString), Fld("recipient_id", TString),
             Fld("status", TString), Fld("timestamp", TString),
             Opt("conversation", TStruct("ConversationInfo")),
             Opt("pricing", TStruct("PricingInfo")),
             Opt("errors", TVec(TStruct("WebhookError")))>>
      [] name = "ConversationInfo" ->
           <<Fld("id", TString), Opt("origin", TStruct("ConversationOrigin")),
             Opt("expiration_timestamp", TString)>>
      [] name = "ConversationOrigin" ->
           <<Renamed("origin_type", "type", TString)>>
      [] name = "PricingInfo" ->
           <<Fld("billable", TBool), Fld("pricing_model", TString),
             Fld("category", TString)>>
      [] name = "WebhookError" ->
           <<Fld("code", TI32), Opt("title", TString), Opt("message", TString),
             Opt("error_data", TStruct("ErrorData"))>>
      [] name = "ErrorData" ->
           <<Fld("details", TString)>>
      \* src/src/error.rs:58-94 (an Option field may be missing)
      [] name = "ApiErrorResponse" ->
           <<Fld("error", TStruct("ApiError"))>>
      [] name = "ApiError" ->
           <<Fld("message", TString),
             Renamed("error_type", "type", TOption(TString)),
             Fld("code", TI32), Opt("error_subcode", TI32),
             Opt("error_user_title", TString), Opt("error_user_msg", TString),
             Opt("fbtrace_id", TString),
             Opt("error_data", TStruct("ApiErrorData"))>>
      [] name = "ApiErrorData" ->
           <<Opt("messaging_product", TString), Opt("details", TString)>>
      \* src/src/types.rs:40-45
      [] name = "SuccessResponse" ->
           <<Fld("success", TBool)>>
      \* src/src/media.rs:168-190
      [] name = "MediaUploadResponse" ->
           <<Fld("id", TString)>>
      [] name = "MediaUrlResponse" ->
           <<Opt("messaging_product", TString), Fld("url", TString),
             Fld("mime_type", TString), Fld("sha256", TString),
             Fld("file_size", TI64), Fld("id", TString)>>

\* <T as Deserialize>::deserialize on the JSON value j.  Structs are read
\* from JSON objects: a field that is present is deserialized at its type
\* (for an Option, null gives None); a missing Option field is None; a
\* missing field of any other type is an error; unknown fields are ignored.
\* An error anywhere is an error of the whole value.
RECURSIVE De(_, _)

\* the function f with every value computed
Forced(f) == f @@ <<>>

\* Vec<T>: every element in turn
DeSeq(ty, xs) ==
    Then(Forced([i \in 1..Len(xs) |-> De(ty, xs[i])]),
         LAMBDA rs : IF \E i \in 1..Len(xs) : ~IsOk(rs[i]) THEN Err
                     ELSE Ok(Forced([i \in 1..Len(xs) |-> rs[i][1]])))

\* one field of a struct read from the JSON object obj
DeField(f, obj) ==
    IF f.json \in DOMAIN obj THEN De(f.ty, obj[f.json])
    ELSE IF f.ty.k = "Option" THEN Ok(None)
    ELSE Err

\* the fields fs of a struct read from the JSON object obj
DeFields(fs, obj) ==
    Then(Forced([i \in 1..Len(fs) |-> DeField(fs[i], obj)]),
         LAMBDA rs : IF \E i \in 1..Len(fs) : ~IsOk(rs[i]) THEN Err
                     ELSE Ok(Forced([n \in {fs[i].rust : i \in 1..Len(fs)} |->
                                rs[CHOOSE i \in 1..Len(fs) : fs[i].rust = n][1]])))

De(ty, j) ==
    CASE ty.k = "String" -> IF JKind(j) = "str" THEN Ok(j.str) ELSE Err
      [] ty.k = "f64" -> IF JKind(j) = "num" THEN Ok(j.num) ELSE Err
      [] ty.k = "i32" -> IF JKind(j) = "num" THEN Ok(j.num) ELSE Err
      [] ty.k = "i64" -> IF JKind(j) = "num" THEN Ok(j.num) ELSE Err
      [] ty.k = "bool" -> IF JKind(j) = "bool" THEN Ok(j.bool) ELSE Err
      [] ty.k = "Option" ->
           IF JKind(j) = "null" THEN Ok(None)
           ELSE Then(De(ty.of, j),
                     LAMBDA r : IF IsOk(r) THEN Ok(Some(r[1])) ELSE Err)
      [] ty.k = "Vec" -> IF JKind(j) = "arr" THEN DeSeq(ty.of, j.arr) ELSE Err
      [] ty.k = "Struct" ->
           IF JKind(j) = "obj" THEN DeFields(StructFields(ty.name), j.obj)
           ELSE Err

\* serde_json::from_str::<WebhookPayload> on a body whose JSON value is j
FromJson(j) == De(TStruct("WebhookPayload"), j)

(***************************************************************************)
(* WebhookPayload::events (src/src/webhooks.rs:527-709).  An event is a    *)
(* record whose field `variant` names the WebhookEvent variant.            *)
(***************************************************************************)
Unknown == [variant |-> "Unknown"]

InteractiveEvent_IgnoreInnerType(msg) ==
    IF IsSome(msg.interactive)
    THEN LET interactive == Unwrap(msg.interactive)
         IN  IF IsSome(interactive.button_reply)
             THEN [variant |-> "ButtonReply",
                   from |-> msg.from,
                   button_id |-> Unwrap(interactive.button_reply).id,
                   button_title |-> Unwrap(interactive.button_reply).title,
                   message_id |-> msg.id]
             ELSE IF IsSome(interactive.list_reply)
             THEN [variant |-> "ListReply",
                   from |-> msg.from,
                   row_id |-> Unwrap(interactive.list_reply).id,
                   row_title |-> Unwrap(interactive.list_reply).title,
                   message_id |-> msg.id]
             ELSE Unknown
    ELSE Unknown

\* the "interactive" arm, lines 632-664
InteractiveEvent(msg) ==
    IF IsSome(msg.interactive)
    THEN LET interactive == Unwrap(msg.interactive)
         IN  CASE interactive.response_type = "button_reply" ->
                    IF IsSome(interactive.button_reply)
                    THEN [variant |-> "ButtonReply",
                          from |-> msg.from,
                          button_id |-> Unwrap(interactive.button_reply).id,
                          button_title |-> Unwrap(interactive.button_reply).title,
                          message_id |-> msg.id]
                    ELSE Unknown
               [] interactive.response_type = "list_reply" ->
                    IF IsSome(interactive.list_reply)
                    THEN [variant |-> "ListReply",
                          from |-> msg.from,
                          row_id |-> Unwrap(interactive.list_reply).id,
                          row_title |-> Unwrap(interactive.list_reply).title,
                          message_id |-> msg.id]
                    ELSE Unknown
               [] OTHER -> Unknown
    ELSE Unknown

\* the "text" arm, lines 536-546
TextArm(msg) ==
    IF IsSome(msg.text)
    THEN [variant |-> "TextMessage", from |-> msg.from,
          text |-> Unwrap(msg.text).body, message_id |-> msg.id]
    ELSE Unknown

\* the "image" arm, lines 547-558
ImageArm(msg) ==
    IF IsSome(msg.image)
    THEN [variant |-> "ImageMessage", from |-> msg.from,
          media_id |-> Unwrap(msg.image).id, message_id |-> msg.id,
          caption |-> Unwrap(msg.image).caption]
    ELSE Unknown

\* the "video" arm, lines 559-570
VideoArm(msg) ==
    IF IsSome(msg.video)
    THEN [variant |-> "VideoMessage", from |-> msg.from,
          media_id |-> Unwrap(msg.video).id, message_id |-> msg.id,
          caption |-> Unwrap(msg.video).caption]
    ELSE Unknown

\* the "audio" arm, lines 571-581
AudioArm(msg) ==
    IF IsSome(msg.audio)
    THEN [variant |-> "AudioMessage", from |-> msg.from,
          media_id |-> Unwrap(msg.audio).id, message_id |-> msg.id]
    ELSE Unknown

DocumentArm_CaptionAsFilename(msg) ==
    IF IsSome(msg.document)
    THEN [variant |-> "DocumentMessage", from |-> msg.from,
          media_id |-> Unwrap(msg.document).id, message_id |-> msg.id,
          filename |-> Unwrap(msg.document).caption]
    ELSE Unknown

\* the "document" arm, lines 582-593
DocumentArm(msg) ==
    IF IsSome(msg.document)
    THEN [variant |-> "DocumentMessage", from |-> msg.from,
          media_id |-> Unwrap(msg.document).id, message_id |-> msg.id,
          filename |-> Unwrap(msg.document).filename]
    ELSE Unknown

StickerArm_AsImage(msg) ==
    IF IsSome(msg.sticker)
    THEN [variant |-> "ImageMessage", from |-> msg.from,
          media_id |-> Unwrap(msg.sticker).id, message_id |-> msg.id,
          caption |-> Unwrap(msg.sticker).caption]
    ELSE Unknown

\* the "sticker" arm, lines 594-604
StickerArm(msg) ==
    IF IsSome(msg.sticker)
    THEN [variant |-> "StickerMessage", from |-> msg.from,
          media_id |-> Unwrap(msg.sticker).id, message_id |-> msg.id]
    ELSE Unknown

\* the "location" arm, lines 605-616
LocationArm(msg) ==
    IF IsSome(msg.location)
    THEN [variant |-> "LocationMessage", from |-> msg.from,
          latitude |-> Unwrap(msg.location).latitude,
          longitude |-> Unwrap(msg.location).longitude,
          message_id |-> msg.id]
    ELSE Unknown

\* the "contacts" arm, lines 617-620: msg.contacts is not looked at
ContactsArm(msg) ==
    [variant |-> "ContactMessage", from |-> msg.from, message_id |-> msg.id]

ReactionArm_EnvelopeId(msg) ==
    IF IsSome(msg.reaction)
    THEN [variant |-> "Reaction", from |-> msg.from,
          message_id |-> msg.id,
          emoji |-> Unwrap(msg.reaction).emoji]
    ELSE Unknown

\* the "reaction" arm, lines 621-631
ReactionArm(msg) ==
    IF IsSome(msg.reaction)
    THEN [variant |-> "Reaction", from |-> msg.from,
          message_id |-> Unwrap(msg.reaction).message_id,
          emoji |-> Unwrap(msg.reaction).emoji]
    ELSE Unknown

\* the match on msg.message_type, lines 535-666
MessageEvent(msg) ==
    CASE msg.message_type = "text" -> TextArm(msg)
      [] msg.message_type = "image" -> ImageArm(msg)
      [] msg.message_type = "video" -> VideoArm(msg)
      [] msg.message_type = "audio" -> AudioArm(msg)
      [] msg.message_type = "document" -> DocumentArm(msg)
      [] msg.message_type = "sticker" -> StickerArm(msg)
      [] msg.message_type = "location" -> LocationArm(msg)
      [] msg.message_type = "contacts" -> ContactsArm(msg)
      [] msg.message_type = "reaction" -> ReactionArm(msg)
      [] msg.message_type = "interactive" -> InteractiveEvent(msg)
      [] OTHER -> Unknown

FirstErrorCode_Last(status) ==
    IF IsSome(status.errors) /\ Len(Unwrap(status.errors)) > 0
    THEN Unwrap(status.errors)[Len(Unwrap(status.errors))].code
    ELSE 0

\* the "failed" arm's error code, lines 688-693
FirstErrorCode(status) ==
    IF IsSome(status.errors) /\ Len(Unwrap(status.errors)) > 0
    THEN Unwrap(status.errors)[1].code
    ELSE 0

StatusEvent_ReadAsDelivered(status) ==
    CASE status.status = "sent" ->
           [variant |-> "MessageSent", message_id |-> status.id,
            recipient |-> status.recipient_id]
      [] status.status \in {"delivered", "read"} ->
           [variant |-> "MessageDelivered", message_id |-> status.id,
            recipient |-> status.recipient_id]
      [] status.status = "failed" ->
           [variant |-> "MessageFailed", message_id |-> status.id,
            recipient |-> status.recipient_id,
            error_code |-> FirstErrorCode(status)]
      [] OTHER -> Unknown

\* the match on status.status, lines 674-701
StatusEvent(status) ==
    CASE status.status = "sent" ->
           [variant |-> "MessageSent", message_id |-> status.id,
            recipient |-> status.recipient_id]
      [] status.status = "delivered" ->
           [variant |-> "MessageDelivered", message_id |-> status.id,
            recipient |-> status.recipient_id]
      [] status.status = "read" ->
           [variant |-> "MessageRead", message_id |-> status.id,
            recipient |-> status.recipient_id]
      [] status.status = "failed" ->
           [variant |-> "MessageFailed", message_id |-> status.id,
            recipient |-> status.recipient_id,
            error_code |-> FirstErrorCode(status)]
      [] OTHER -> Unknown

RECURSIVE PushMessages_StopAtUnknown(_, _, _)
PushMessages_StopAtUnknown(events0, messages, i) ==
    IF i > Len(messages) THEN events0
    ELSE IF MessageEvent(messages[i]) = Unknown THEN Append(events0, Unknown)
    ELSE PushMessages_StopAtUnknown(Append(events0, MessageEvent(messages[i])),
                                    messages, i + 1)

\* for msg in messages { events.push(..) }, from index i on (lines 534-668)
RECURSIVE PushMessages(_, _, _)
PushMessages(events0, messages, i) ==
    IF i > Len(messages) THEN events0
    ELSE PushMessages(Append(events0, MessageEvent(messages[i])), messages, i + 1)

\* for status in statuses { events.push(..) }, from index i on (lines 673-703)
RECURSIVE PushStatuses(_, _, _)
PushStatuses(events0, statuses, i) ==
    IF i > Len(statuses) THEN events0
    ELSE PushStatuses(Append(events0, StatusEvent(statuses[i])), statuses, i + 1)

PushChange_StatusesFirst(events0, change) ==
    LET afterStatuses ==
            IF IsSome(change.value.statuses)
            THEN PushStatuses(events0, Unwrap(change.value.statuses), 1)
            ELSE events0
    IN  IF IsSome(change.value.messages)
        THEN PushMessages(afterStatuses, Unwrap(change.value.messages), 1)
        ELSE afterStatuses

PushChange_ErrorsAsEvents(events0, change) ==
    LET afterMessages ==
            IF IsSome(change.value.messages)
            THEN PushMessages(events0, Unwrap(change.value.messages), 1)
            ELSE events0
        afterStatuses ==
            IF IsSome(change.value.statuses)
            THEN PushStatuses(afterMessages, Unwrap(change.value.statuses), 1)
            ELSE afterMessages
    IN  IF IsSome(change.value.errors)
        THEN afterStatuses \o [i \in 1..Len(Unwrap(change.value.errors)) |-> Unknown]
        ELSE afterStatuses

\* the body of `for change in &entry.changes` (lines 531-705): the messages
\* if the list is there, then the statuses if the list is there
PushChange(events0, change) ==
    LET afterMessages ==
            IF IsSome(change.value.messages)
            THEN PushMessages(events0, Unwrap(change.value.messages), 1)
            ELSE events0
    IN  IF IsSome(change.value.statuses)
        THEN PushStatuses(afterMessages, Unwrap(change.value.statuses), 1)
        ELSE afterMessages

RECURSIVE PushChanges(_, _, _)
PushChanges(events0, changes, c) ==
    IF c > Len(changes) THEN events0
    ELSE PushChanges(PushChange(events0, changes[c]), changes, c + 1)

\* for entry in &self.entry (lines 530-706), from index e on
RECURSIVE PushEntries(_, _, _)
PushEntries(events0, entry, e) ==
    IF e > Len(entry) THEN events0
    ELSE PushEntries(PushChanges(events0, entry[e].changes, 1), entry, e + 1)

Events_RetainedBuffer(self) ==
    PushEntries(IF IsSome(events) THEN Unwrap(events) ELSE <<>>, self.entry, 1)

\* WebhookPayload::events(&self)
Events(self) == PushEntries(<<>>, self.entry, 1)

(***************************************************************************)
(* Webhook bodies fed to serde_json::from_str and events()                 *)
(***************************************************************************)
MaxEntries == 2
MaxChanges == 2
MaxMessages == 2
MaxStatuses == 2

\* kind-specific sub-objects of a message, as the JSON fields they add
SubText == [text |-> JObj([body |-> JStr("Hello, World!")])]
SubImage == [image |-> JObj([id |-> JStr("media.img"), mime_type |-> JStr("image/jpeg"),
                             sha256 |-> JStr("abc"), caption |-> JStr("Check this out!")])]
SubImageBare == [image |-> JObj([id |-> JStr("media.img2"), mime_type |-> JStr("image/png")])]
SubVideo == [video |-> JObj([id |-> JStr("media.vid"), mime_type |-> JStr("video/mp4"),
                             caption |-> JStr("My video")])]
SubAudio == [audio |-> JObj([id |-> JStr("media.aud"), mime_type |-> JStr("audio/ogg")])]
SubDocument == [document |-> JObj([id |-> JStr("media.doc"), mime_type |-> JStr("application/pdf"),
                                   filename |-> JStr("report.pdf"), caption |-> JStr("The report")])]
SubDocumentBare == [document |-> JObj([id |-> JStr("media.doc2"), mime_type |-> JStr("text/plain")])]
SubSticker == [sticker |-> JObj([id |-> JStr("media.stk"), mime_type |-> JStr("image/webp")])]
SubLocation == [location |-> JObj([latitude |-> JNum(-6), longitude |-> JNum(106),
                                   name |-> JStr("Jakarta")])]
SubContacts == [contacts |-> JArr(<<JObj([name |-> JObj([formatted_name |-> JStr("John Doe")]),
                                         phones |-> JArr(<<JObj([phone |-> JStr("+1555")])>>)])>>)]
SubReaction == [reaction |-> JObj([message_id |-> JStr("wamid.target"), emoji |-> JStr("thumbsup")])]
SubReactionRemoved == [reaction |-> JObj([message_id |-> JStr("wamid.target"), emoji |-> JStr("")])]
SubButton == [button |-> JObj([text |-> JStr("Yes"), payload |-> JStr("yes-payload")])]
SubSystem == [system |-> JObj([body |-> JStr("number changed"), type |-> JStr("user_changed_number")])]

JsonButtonReply == JObj([id |-> JStr("btn_yes"), title |-> JStr("Yes")])
JsonListReply == JObj([id |-> JStr("row_1"), title |-> JStr("Option 1"),
                       description |-> JStr("First option")])

\* an interactive sub-object with inner type ty and the chosen inner objects
SubInteractive(ty, withButton, withList) ==
    [interactive |->
        JObj([type |-> JStr(ty)]
             @@ (IF withButton THEN [button_reply |-> JsonButtonReply] ELSE <<>>)
             @@ (IF withList THEN [list_reply |-> JsonListReply] ELSE <<>>))]

NoSub == <<>>

\* sub-objects that do not deserialize at their type
SubTextNoBody == [text |-> JObj([preview_url |-> JBool(FALSE)])]
SubImageNoMime == [image |-> JObj([id |-> JStr("media.img")])]
SubLocationText == [location |-> JObj([latitude |-> JStr("-6.2"), longitude |-> JNum(106)])]
SubInteractiveNoType == [interactive |-> JObj([button_reply |-> JsonButtonReply])]
\* a sub-object given as null
SubTextNull == [text |-> JNull]

\* a message shape: the type discriminator and the sub-objects sent with it
Shape(ty, sub) == [type |-> ty, sub |-> sub]

\* every documented discriminator with its own sub-object
PresentShapes ==
    <<Shape("text", SubText), Shape("image", SubImage), Shape("image", SubImageBare),
      Shape("video", SubVideo), Shape("audio", SubAudio),
      Shape("document", SubDocument), Shape("document", SubDocumentBare),
      Shape("sticker", SubSticker), Shape("location", SubLocation),
      Shape("contacts", SubContacts), Shape("reaction", SubReaction),
      Shape("reaction", SubReactionRemoved),
      Shape("interactive", SubInteractive("button_reply", TRUE, FALSE)),
      Shape("interactive", SubInteractive("list_reply", FALSE, TRUE)),
      Shape("button", SubButton), Shape("system", SubSystem)>>

\* every documented discriminator, and an undocumented one, with no sub-object
AbsentShapes ==
    <<Shape("text", NoSub), Shape("image", NoSub), Shape("video", NoSub),
      Shape("audio", NoSub), Shape("document", NoSub), Shape("sticker", NoSub),
      Shape("location", NoSub), Shape("contacts", NoSub), Shape("reaction", NoSub),
      Shape("interactive", NoSub), Shape("button", NoSub), Shape("system", NoSub),
      Shape("unsupported_future_type", NoSub), Shape("text", SubTextNull)>>

\* a discriminator with the sub-object of another kind
MismatchedShapes ==
    <<Shape("text", SubImage), Shape("image", SubText), Shape("audio", SubVideo),
      Shape("unsupported_future_type", SubText), Shape("order", SubText)>>

\* the remaining combinations of inner type and inner objects of interactive
InteractiveShapes ==
    <<Shape("interactive", SubInteractive("button_reply", FALSE, FALSE)),
      Shape("interactive", SubInteractive("button_reply", FALSE, TRUE)),
      Shape("interactive", SubInteractive("button_reply", TRUE, TRUE)),
      Shape("interactive", SubInteractive("list_reply", FALSE, FALSE)),
      Shape("interactive", SubInteractive("list_reply", TRUE, FALSE)),
      Shape("interactive", SubInteractive("list_reply", TRUE, TRUE)),
      Shape("interactive", SubInteractive("nfm_reply", FALSE, FALSE)),
      Shape("interactive", SubInteractive("nfm_reply", TRUE, FALSE)),
      Shape("interactive", SubInteractive("nfm_reply", FALSE, TRUE)),
      Shape("interactive", SubInteractive("nfm_reply", TRUE, TRUE))>>

\* a discriminator whose sub-object is there but does not deserialize
MalformedShapes ==
    <<Shape("text", SubTextNoBody), Shape("image", SubImageNoMime),
      Shape("location", SubLocationText), Shape("interactive", SubInteractiveNoType),
      Shape("unsupported_future_type", SubTextNoBody)>>

MessageShapes ==
    PresentShapes \o AbsentShapes \o MismatchedShapes \o InteractiveShapes
    \o MalformedShapes

\* the shapes used where the structure of the envelope is what varies
Palette ==
    <<Shape("text", SubText), Shape("image", SubImage), Shape("contacts", SubContacts),
      Shape("unsupported_future_type", NoSub),
      Shape("interactive", SubInteractive("list_reply", FALSE, TRUE))>>

\* the message with tag n (a string) and the given shape
RawMessage(n, shape) ==
    JObj([from |-> JStr("62811" \o n), id |-> JStr("wamid." \o n),
          timestamp |-> JStr("1700000000"), type |-> JStr(shape.type)]
         @@ shape.sub)

JsonError(code) == JObj([code |-> JNum(code), title |-> JStr("failure")])

\* a status shape: the discriminator and, if not None, the errors field
StatusShapes ==
    <<[status |-> "sent", errors |-> None],
      [status |-> "delivered", errors |-> None],
      [status |-> "read", errors |-> None],
      [status |-> "failed", errors |-> Some(JArr(<<JsonError(131026)>>))],
      [status |-> "deleted", errors |-> None],
      [status |-> "failed", errors |-> None],
      [status |-> "failed", errors |-> Some(JArr(<<>>))],
      [status |-> "failed", errors |-> Some(JArr(<<JsonError(131026), JsonError(130472)>>))],
      [status |-> "failed", errors |-> Some(JNull)],
      [status |-> "sent", errors |-> Some(JArr(<<JsonError(131047)>>))],
      [status |-> "failed", errors |-> Some(JArr(<<JsonError(130472), JsonError(131026)>>))],
      [status |-> "SENT", errors |-> None],
      [status |-> "warning", errors |-> None]>>

RawStatus(n, shape) ==
    JObj([id |-> JStr("wamid.out." \o n), recipient_id |-> JStr("62822" \o n),
          status |-> JStr(shape.status), timestamp |-> JStr("1700000001")]
         @@ (IF IsSome(shape.errors) THEN [errors |-> Unwrap(shape.errors)] ELSE <<>>))

RawMetadata ==
    JObj([display_phone_number |-> JStr("15550001111"),
          phone_number_id |-> JStr("100200300")])

\* a change whose value holds the lists that are not None
RawChange(messages, statuses) ==
    JObj([field |-> JStr("messages"),
          value |-> JObj([messaging_product |-> JStr("whatsapp"),
                          metadata |-> RawMetadata]
                         @@ (IF IsSome(messages)
                             THEN [messages |-> JArr(Unwrap(messages))] ELSE <<>>)
                         @@ (IF IsSome(statuses)
                             THEN [statuses |-> JArr(Unwrap(statuses))] ELSE <<>>))])

RawEntry(n, changes) == JObj([id |-> JStr("waba." \o n), changes |-> JArr(changes)])

RawPayload(entries) ==
    JObj([object |-> JStr("whatsapp_business_account"), entry |-> JArr(entries)])

\* element ((i + rot) mod Len) of a sequence, counting from 0
Cyclic(xs, i) == xs[(i % Len(xs)) + 1]

Tag3(e, c, i) == ToString(e) \o "." \o ToString(c) \o "." \o ToString(i)

\* An envelope of ne entries whose structure is fixed by rs and whose message
\* and status kinds are fixed by rc: entry e has (e + rs) mod (MaxChanges + 1)
\* changes; change c of entry e takes the next of the (MaxMessages + 2) *
\* (MaxStatuses + 2) combinations of "no messages list / a list of 0 ..
\* MaxMessages" with "no statuses list / a list of 0 .. MaxStatuses".
StructuredPayload(ne, rs, rc) ==
    LET q(e, c) == (e * (MaxChanges + 1) + c + rs)
                       % ((MaxMessages + 2) * (MaxStatuses + 2))
        nm(e, c) == (q(e, c) % (MaxMessages + 2)) - 1
        ns(e, c) == (q(e, c) \div (MaxMessages + 2)) - 1
        msgs(e, c) ==
            IF nm(e, c) < 0 THEN None
            ELSE Some([i \in 1..nm(e, c) |->
                         RawMessage(Tag3(e, c, i), Cyclic(Palette, 7 * e + 3 * c + i + rc))])
        stats(e, c) ==
            IF ns(e, c) < 0 THEN None
            ELSE Some([i \in 1..ns(e, c) |->
                         RawStatus(Tag3(e, c, i), Cyclic(StatusShapes, 5 * e + 3 * c + i + rc))])
    IN  RawPayload([e \in 1..ne |->
            RawEntry(ToString(e),
                     [c \in 1..((e + rs) % (MaxChanges + 1)) |->
                         RawChange(msgs(e, c), stats(e, c))])])

\* one entry with one change holding the given messages and statuses
FlatPayload(messages, statuses) ==
    RawPayload(<<RawEntry("1", <<RawChange(messages, statuses)>>)>>)

\* envelopes that are not a WebhookPayload
BrokenPayloads ==
    {JObj([hub_mode |-> JStr("subscribe")]), JNull, JArr(<<>>),
     JObj([object |-> JNum(1), entry |-> JArr(<<>>)]),
     JObj([object |-> JStr("whatsapp_business_account")]),
     RawPayload(<<JObj([id |-> JStr("waba.1")])>>),
     RawPayload(<<RawEntry("1", <<JObj([field |-> JStr("messages"),
                                         value |-> JObj([messaging_product |-> JStr("whatsapp")])])>>)>>),
     FlatPayload(Some(<<JObj([from |-> JStr("628111"), type |-> JStr("text")] @@ SubText)>>), None),
     FlatPayload(None, Some(<<JObj([id |-> JStr("wamid.out.1"), status |-> JStr("sent")])>>))}

\* an envelope whose only unit is a message of the given shape
Single(shape) == FlatPayload(Some(<<RawMessage("1", shape)>>), None)

\* a message of the given shape between two well-formed messages, with a
\* status after them
Batch(shape) ==
    FlatPayload(Some(<<RawMessage("1", Palette[1]), RawMessage("2", shape),
                       RawMessage("3", Palette[2])>>),
                Some(<<RawStatus("4", StatusShapes[1])>>))

\* The parts of an envelope that events() does not read, and an envelope
\* rewritten in one of them: the object, the entry ids, the change field
\* names, the metadata, the value-level contacts, the value-level errors.
Variations == {"object", "entry_id", "field", "metadata", "contacts", "errors"}

RawContact ==
    JObj([profile |-> JObj([name |-> JStr("Budi")]), wa_id |-> JStr("628111")])

VaryValue(val, v) ==
    CASE v = "metadata" ->
           [metadata |-> JObj([display_phone_number |-> JStr("15559990000"),
                               phone_number_id |-> JStr("999")])] @@ val
      [] v = "contacts" -> [contacts |-> JArr(<<RawContact>>)] @@ val
      [] v = "errors" -> [errors |-> JArr(<<JsonError(131000), JsonError(130429)>>)] @@ val
      [] OTHER -> val

VaryChange(change, v) ==
    JObj([field |-> IF v = "field" THEN JStr("account_update") ELSE change.obj.field,
          value |-> JObj(VaryValue(change.obj.value.obj, v))])

VaryEntry(entry, v) ==
    JObj([id |-> IF v = "entry_id" THEN JStr("waba.other") ELSE entry.obj.id,
          changes |-> JArr([c \in 1..Len(entry.obj.changes.arr) |->
                              VaryChange(entry.obj.changes.arr[c], v)])])

Vary(envelope, v) ==
    JObj([object |-> IF v = "object" THEN JStr("page") ELSE envelope.obj.object,
          entry |-> JArr([e \in 1..Len(envelope.obj.entry.arr) |->
                            VaryEntry(envelope.obj.entry.arr[e], v)])])

\* a text message and a sent status, and that envelope rewritten
PlainPayload ==
    FlatPayload(Some(<<RawMessage("1", Palette[1])>>),
                Some(<<RawStatus("2", StatusShapes[1])>>))

VariedPayloads == {Vary(PlainPayload, v) : v \in Variations}

\* the bodies: every message shape alone and inside a batch; every status
\* shape alone and after a message; the structured envelopes; the rewritten
\* envelope; the broken ones
HookInputs ==
    {Single(MessageShapes[k]) : k \in 1..Len(MessageShapes)}
    \cup {Batch(MessageShapes[k]) : k \in 1..Len(MessageShapes)}
    \cup {FlatPayload(None, Some(<<RawStatus("1", StatusShapes[k])>>)) :
            k \in 1..Len(StatusShapes)}
    \cup {FlatPayload(Some(<<RawMessage("1", Palette[1])>>),
                      Some(<<RawStatus("2", StatusShapes[k]),
                             RawStatus("3", StatusShapes[2])>>)) :
            k \in 1..Len(StatusShapes)}
    \cup {StructuredPayload(ne, rs, rc) :
            ne \in 0..MaxEntries,
            rs \in 0..((MaxMessages + 2) * (MaxStatuses + 2) - 1),
            rc \in 0..(Len(Palette) - 1)}
    \cup VariedPayloads
    \cup BrokenPayloads

\* serde_json::from_str::<WebhookPayload>(body)
ParseStep ==
    /\ webhook = None
    /\ webhook' = Some(FromJson(raw))
    /\ UNCHANGED <<raw, events, printed, events2>>
    /\ UNCHANGED sigVars
    /\ UNCHANGED apiVars
    /\ UNCHANGED clientVars
    /\ UNCHANGED threadVars

\* webhook.events() on a payload that deserialized
EventsStep ==
    /\ IsSome(webhook)
    /\ IsOk(Unwrap(webhook))
    /\ events = None
    /\ events' = Some(Events(Unwrap(webhook)[1]))
    /\ UNCHANGED <<raw, webhook, printed, events2>>
    /\ UNCHANGED sigVars
    /\ UNCHANGED apiVars
    /\ UNCHANGED clientVars
    /\ UNCHANGED threadVars

\* webhook.events() called once more on the same payload
EventsAgainStep ==
    /\ IsSome(webhook)
    /\ IsOk(Unwrap(webhook))
    /\ IsSome(events)
    /\ events2 = None
    /\ events2' = Some(Events(Unwrap(webhook)[1]))
    /\ UNCHANGED <<raw, webhook, events, printed>>
    /\ UNCHANGED sigVars
    /\ UNCHANGED apiVars
    /\ UNCHANGED clientVars
    /\ UNCHANGED threadVars

InitHook ==
    /\ raw \in HookInputs
    /\ webhook = None
    /\ events = None
    /\ printed = None
    /\ access_token = ""
    /\ op = "none"
    /\ api_pc = "idle"
    /\ requests = <<>>
    /\ response = None
    /\ outcome = None
    /\ media_info = None
    /\ upload = None
    /\ events2 = None
    /\ args = None
    /\ clients = <<>>
    /\ debug_out = None
    /\ threads = <<>>
    /\ payload = <<>>
    /\ signature = <<>>
    /\ app_secret = <<>>
    /\ pc = "idle"
    /\ sig = <<>>
    /\ key = <<>>
    /\ computed = <<>>
    /\ cmp_i = 0
    /\ cmp_steps = 0
    /\ result = None

NextHook ==
    \/ ParseStep
    \/ EventsStep
    \/ EventsAgainStep

SpecHook == InitHook /\ [][NextHook]_vars

(***************************************************************************)
(* The inbound flow: one request (raw body, signature header) and the calls *)
(* the crate offers for it, which take no proof of one another:             *)
(* verify_signature, serde_json::from_str, WebhookPayload::events, and the  *)
(* handler of the module documentation (src/src/webhooks.rs:5-24).          *)
(***************************************************************************)
\* the JSON value a body is the text of; Err for a body that is not JSON
SyntaxOf(bytes) ==
    CASE bytes = BodyEmptyEnvelope -> Ok(RawPayload(<<>>))
      [] bytes = BodyTextWebhook -> Ok(Single(Shape("text", SubText)))
      [] OTHER -> Err

\* serde_json::from_str::<WebhookPayload>(payload)
FromStr(bytes) ==
    Then(SyntaxOf(bytes), LAMBDA j : IF IsOk(j) THEN FromJson(j[1]) ELSE Err)

\* for message in messages { println!(.., message.from) }, lines 16-18
RECURSIVE PrintMessages(_, _, _)
PrintMessages(out, messages, i) ==
    IF i > Len(messages) THEN out
    ELSE PrintMessages(Append(out, messages[i].from), messages, i + 1)

\* for change in entry.changes { if let Some(messages) = .. }, lines 14-19
RECURSIVE PrintChanges(_, _, _)
PrintChanges(out, changes, c) ==
    IF c > Len(changes) THEN out
    ELSE PrintChanges(IF IsSome(changes[c].value.messages)
                      THEN PrintMessages(out, Unwrap(changes[c].value.messages), 1)
                      ELSE out,
                      changes, c + 1)

\* for entry in webhook.entry, lines 13-21
RECURSIVE PrintEntries(_, _, _)
PrintEntries(out, entry, e) ==
    IF e > Len(entry) THEN out
    ELSE PrintEntries(PrintChanges(out, entry[e].changes, 1), entry, e + 1)

\* handle_webhook(payload) of the module documentation: Err if the body does
\* not deserialize, else Ok with the senders printed
handle_webhook(bytes) ==
    Then(FromStr(bytes),
         LAMBDA w : IF IsOk(w) THEN Ok(PrintEntries(<<>>, w[1].entry, 1)) ELSE Err)

\* the caller deserializes the body
FromStrCall ==
    /\ webhook = None
    /\ webhook' = Some(FromStr(payload))
    /\ UNCHANGED <<raw, events, printed, events2>>
    /\ UNCHANGED sigVars
    /\ UNCHANGED apiVars
    /\ UNCHANGED clientVars
    /\ UNCHANGED threadVars

\* the caller hands the body to the documented handler
HandleWebhookCall ==
    /\ printed = None
    /\ printed' = Some(handle_webhook(payload))
    /\ UNCHANGED <<raw, webhook, events, events2>>
    /\ UNCHANGED sigVars
    /\ UNCHANGED apiVars
    /\ UNCHANGED clientVars
    /\ UNCHANGED threadVars

\* the headers a request for body b may carry
FlowHeaders(b) == ValidHeaders(b, SecretK) \cup MalformedHeaders(b, SecretK)

InitFlow ==
    /\ payload \in FlowBodies
    /\ app_secret = SecretK
    /\ signature \in FlowHeaders(payload)
    /\ pc = "strip"
    /\ sig = <<>>
    /\ key = <<>>
    /\ computed = <<>>
    /\ cmp_i = 0
    /\ cmp_steps = 0
    /\ result = None
    /\ raw = None
    /\ webhook = None
    /\ events = None
    /\ printed = None
    /\ access_token = ""
    /\ op = "none"
    /\ api_pc = "idle"
    /\ requests = <<>>
    /\ response = None
    /\ outcome = None
    /\ media_info = None
    /\ upload = None
    /\ events2 = None
    /\ args = None
    /\ clients = <<>>
    /\ debug_out = None
    /\ threads = <<>>

NextFlow ==
    \/ StripStep
    \/ MacStep
    \/ HexStep
    \/ CompareLenStep
    \/ CompareByteStep
    \/ FromStrCall
    \/ EventsStep
    \/ HandleWebhookCall

SpecFlow == InitFlow /\ [][NextFlow]_vars

(***************************************************************************)
(* Resource operations: Client::get / post / post_form / delete            *)
(* (src/src/client.rs:128-195), Client::handle_response (198-219), the     *)
(* conversion of ApiErrorResponse into Error (src/src/error.rs:96-112) and *)
(* MediaApi::download (src/src/media.rs:128-152).  A response body is a    *)
(* record of its text and of the JSON value the text denotes (Err when the *)
(* text is not JSON).  A Result is [ok |-> v] or [err |-> e].              *)
(***************************************************************************)
Success(v) == [ok |-> v]
Failure(e) == [err |-> e]
IsSuccessful(r) == DOMAIN r = {"ok"}

\* the variants of Error used here (src/src/error.rs:11-56)
ErrorRequest == [variant |-> "Request"]
ErrorJson == [variant |-> "Json"]
InvalidToken == [variant |-> "InvalidToken"]
RateLimited(retry_after) == [variant |-> "RateLimited", retry_after |-> retry_after]
Api(code, message, error_subcode, error_data) ==
    [variant |-> "Api", code |-> code, message |-> message,
     error_subcode |-> error_subcode, error_data |-> error_data]
MediaUpload(text) == [variant |-> "MediaUpload", text |-> text]

ErrorFrom_RateLimitByMessage(resp) ==
    LET err == resp.error
    IN  CASE err.code = 190 -> InvalidToken
          [] err.code \in {4, 17, 32, 613} \/ err.message = "Rate limit exceeded" ->
               RateLimited(None)
          [] OTHER -> Api(err.code, err.message, err.error_subcode, err.error_data)

ErrorFrom_TokenAsRateLimit(resp) ==
    LET err == resp.error
    IN  CASE err.code \in {4, 17, 32, 613, 190} -> RateLimited(None)
          [] OTHER -> Api(err.code, err.message, err.error_subcode, err.error_data)

ErrorFrom_DropsDetail(resp) ==
    LET err == resp.error
    IN  CASE err.code = 190 -> InvalidToken
          [] err.code \in {4, 17, 32, 613} -> RateLimited(None)
          [] OTHER -> Api(err.code, err.message, err.error_subcode, None)

\* impl From<ApiErrorResponse> for Error (src/src/error.rs:96-112)
ErrorFrom(resp) ==
    LET err == resp.error
    IN  CASE err.code = 190 -> InvalidToken
          [] err.code \in {4, 17, 32, 613} -> RateLimited(None)
          [] OTHER -> Api(err.code, err.message, err.error_subcode, err.error_data)

\* StatusCode::is_success
IsSuccessStatus(status) == status >= 200 /\ status < 300

\* serde_json::from_str::<T>(&body) for the struct named T
FromText(T, body) ==
    IF IsOk(body.json) THEN De(TStruct(T), body.json[1]) ELSE Err

handle_response_EmptyMessage(T, resp) ==
    IF IsSuccessStatus(resp.status)
    THEN Then(FromText(T, resp.body),
              LAMBDA r : IF IsOk(r) THEN Success(r[1]) ELSE Failure(ErrorJson))
    ELSE Then(FromText("ApiErrorResponse", resp.body),
              LAMBDA r : IF IsOk(r) THEN Failure(ErrorFrom(r[1]))
                         ELSE Failure(Api(resp.status, "", None, None)))

handle_response_EnvelopeFirst(T, resp) ==
    Then(FromText("ApiErrorResponse", resp.body),
         LAMBDA e : IF IsOk(e) THEN Failure(ErrorFrom(e[1]))
                    ELSE IF IsSuccessStatus(resp.status)
                    THEN Then(FromText(T, resp.body),
                              LAMBDA r : IF IsOk(r) THEN Success(r[1])
                                         ELSE Failure(ErrorJson))
                    ELSE Failure(Api(resp.status, resp.body.text, None, None)))

handle_response_429IsRateLimited(T, resp) ==
    IF IsSuccessStatus(resp.status)
    THEN Then(FromText(T, resp.body),
              LAMBDA r : IF IsOk(r) THEN Success(r[1]) ELSE Failure(ErrorJson))
    ELSE IF resp.status = 429 THEN Failure(RateLimited(None))
    ELSE Then(FromText("ApiErrorResponse", resp.body),
              LAMBDA r : IF IsOk(r) THEN Failure(ErrorFrom(r[1]))
                         ELSE Failure(Api(resp.status, resp.body.text, None, None)))

\* Client::handle_response::<T> after response.text() (client.rs:202-218)
handle_response(T, resp) ==
    IF IsSuccessStatus(resp.status)
    THEN Then(FromText(T, resp.body),
              LAMBDA r : IF IsOk(r) THEN Success(r[1]) ELSE Failure(ErrorJson))
    ELSE Then(FromText("ApiErrorResponse", resp.body),
              LAMBDA r : IF IsOk(r) THEN Failure(ErrorFrom(r[1]))
                         ELSE Failure(Api(resp.status, resp.body.text, None, None)))

\* the operations: one user of each Client method, MediaApi::download and
\* MediaApi::upload_base64 (which ends in post_form)
Ops == {"get", "post", "post_form", "delete", "download", "upload_base64"}

\* the T of handle_response::<T> in each operation
ResponseType(o) ==
    CASE o = "get" -> "MediaUrlResponse"
      [] o = "post" -> "SuccessResponse"
      [] o = "post_form" -> "MediaUploadResponse"
      [] o = "delete" -> "SuccessResponse"
      [] o = "download" -> "MediaUrlResponse"
      [] o = "upload_base64" -> "MediaUploadResponse"

MethodOf(o) ==
    CASE o = "get" -> "GET"
      [] o = "post" -> "POST"
      [] o = "post_form" -> "POST"
      [] o = "delete" -> "DELETE"
      [] o = "download" -> "GET"
      [] o = "upload_base64" -> "POST"

\* a request: its method and the Authorization and Content-Type headers set
Request(method, authorization, content_type) ==
    [method |-> method, authorization |-> authorization,
     content_type |-> content_type]

\* Client::default_headers (client.rs:114-126)
default_headers(token) ==
    [authorization |-> Some("Bearer " \o token),
     content_type |-> Some("application/json")]

\* the headers post_form builds (client.rs:165-170)
form_headers(token) ==
    [authorization |-> Some("Bearer " \o token), content_type |-> None]

\* MediaApi::get_token (media.rs:161-165)
get_token == ""

\* the request of Client::get / post / post_form / delete
ClientRequest(o, token) ==
    LET headers == IF o \in {"post_form", "upload_base64"} THEN form_headers(token)
                   ELSE default_headers(token)
    IN  Request(MethodOf(o), headers.authorization, headers.content_type)

\* the content request of MediaApi::download (media.rs:133-140)
ContentRequest == Request("GET", Some("Bearer " \o get_token), None)

\* Display of the StatusCode of a response
StatusDisplay(status) ==
    CASE status = 200 -> "200 OK"
      [] status = 201 -> "201 Created"
      [] status = 302 -> "302 Found"
      [] status = 400 -> "400 Bad Request"
      [] status = 401 -> "401 Unauthorized"
      [] status = 404 -> "404 Not Found"
      [] status = 429 -> "429 Too Many Requests"
      [] status = 500 -> "500 Internal Server Error"

\* the end of MediaApi::download (media.rs:144-151)
download_content(resp) ==
    IF ~IsSuccessStatus(resp.status)
    THEN Failure(MediaUpload("Failed to download media: " \o StatusDisplay(resp.status)))
    ELSE Success([bytes |-> resp.body.text])

(***************************************************************************)
(* MediaApi::upload_base64 and upload_bytes up to post_form                *)
(* (src/src/media.rs:64-103).  The base64 text is a sequence of character  *)
(* codes, decoded as the STANDARD engine does: the RFC 4648 alphabet, the  *)
(* length a multiple of four, canonical padding, no stray trailing bits.   *)
(***************************************************************************)
\* the six bits of a base64 character, -1 for a character outside the alphabet
Sextet(c) ==
    CASE c >= 65 /\ c <= 90 -> c - 65
      [] c >= 97 /\ c <= 122 -> c - 71
      [] c >= 48 /\ c <= 57 -> c + 4
      [] c = 43 -> 62
      [] c = 47 -> 63
      [] OTHER -> -1

\* the number of '=' that end the text, two at most
PadCount(s) ==
    IF Len(s) >= 2 /\ s[Len(s)] = 61 /\ s[Len(s) - 1] = 61 THEN 2
    ELSE IF Len(s) >= 1 /\ s[Len(s)] = 61 THEN 1
    ELSE 0

Base64Decode_Lenient(s) ==
    LET m == Len(s) - PadCount(s)
        sx == [i \in 1..m |-> IF Sextet(s[i]) < 0 THEN 0 ELSE Sextet(s[i])] @@ <<0, 0>>
    IN  Ok([k \in 1..((m * 6) \div 8) |->
              LET i == (((k - 1) * 8) \div 6) + 1
                  off == ((k - 1) * 8) % 6
              IN  ((sx[i] * 64 + sx[i + 1]) \div Pow2(4 - off)) % 256])

\* base64::engine::general_purpose::STANDARD.decode(s)
Base64Decode(s) ==
    LET p == PadCount(s)
        m == Len(s) - p
        sx == [i \in 1..m |-> Sextet(s[i])]
    IN  IF \E i \in 1..m : sx[i] < 0 THEN Err
        ELSE IF Len(s) % 4 # 0 THEN Err
        ELSE IF (p = 1 /\ sx[m] % 4 # 0) \/ (p = 2 /\ sx[m] % 16 # 0) THEN Err
        ELSE Ok([k \in 1..((m * 6) \div 8) |->
                   LET i == (((k - 1) * 8) \div 6) + 1
                       off == ((k - 1) * 8) % 6
                   IN  ((sx[i] * 64 + sx[i + 1]) \div Pow2(4 - off)) % 256])

\* Part::mime_str(mime_type) accepts the text: it is type "/" subtype
MimeParses(mime_type) == mime_type \in {"image/jpeg", "application/pdf"}

\* upload_base64 and upload_bytes before post_form: the error they return,
\* or None when the form goes out.  The Display text of the decoder's and
\* of the multipart builder's error stands as a fixed word.
upload_base64(base64_data, mime_type) ==
    IF ~IsOk(Base64Decode(base64_data))
    THEN Some(MediaUpload("Invalid base64: DecodeError"))
    ELSE IF ~MimeParses(mime_type)
    THEN Some(MediaUpload("builder error"))
    ELSE None

(***************************************************************************)
(* Responses the Graph API can give.  EnvelopeBody builds the text and the *)
(* JSON value of a vendor error envelope together; shape 0 has only the    *)
(* required message and code, shapes 1..3 add the optional members.        *)
(***************************************************************************)
Body(text, json) == [text |-> text, json |-> json]

Quoted(x) == "\"" \o x \o "\""

EnvelopeText(code, message, shape) ==
    "{\"error\":{\"message\":" \o Quoted(message)
    \o (IF shape >= 1 THEN ",\"type\":\"OAuthException\"" ELSE "")
    \o ",\"code\":" \o ToString(code)
    \o (IF shape >= 2
        THEN ",\"error_subcode\":33,\"error_user_title\":\"Title\",\"error_user_msg\":\"Please retry\""
        ELSE "")
    \o (IF shape >= 3
        THEN ",\"error_data\":{\"messaging_product\":\"whatsapp\",\"details\":\"Recipient unreachable\"}"
        ELSE "")
    \o (IF shape >= 1 THEN ",\"fbtrace_id\":\"AbC" \o ToString(shape) \o "\"" ELSE "")
    \o "}}"

EnvelopeError(code, message, shape) ==
    LET required == [message |-> JStr(message), code |-> JNum(code)]
        typed == [type |-> JStr("OAuthException"),
                  fbtrace_id |-> JStr("AbC" \o ToString(shape))]
        user == [error_subcode |-> JNum(33), error_user_title |-> JStr("Title"),
                 error_user_msg |-> JStr("Please retry")]
        data == [error_data |-> JObj([messaging_product |-> JStr("whatsapp"),
                                      details |-> JStr("Recipient unreachable")])]
    IN  required @@ (IF shape >= 1 THEN typed ELSE <<>>)
                 @@ (IF shape >= 2 THEN user ELSE <<>>)
                 @@ (IF shape >= 3 THEN data ELSE <<>>)

EnvelopeBody(code, message, shape) ==
    Body(EnvelopeText(code, message, shape),
         Ok(JObj([error |-> JObj(EnvelopeError(code, message, shape))])))

\* the codes error.rs distinguishes, and codes it does not
EnvelopeCodes == {190, 4, 17, 32, 613, 0, 100, 429, 131026}
EnvelopeMessages == {"Invalid OAuth access token", "Rate limit exceeded", ""}
EnvelopeShapes == 0..3

EnvelopeBodies ==
    {EnvelopeBody(c, m, v) : c \in EnvelopeCodes, m \in EnvelopeMessages,
                             v \in EnvelopeShapes}

\* bodies that are no vendor envelope: not JSON, JSON of another shape, an
\* envelope without a required member or with a member of the wrong type
OtherErrorBodies ==
    { Body("Bad Gateway", Err),
      Body("", Err),
      Body("<html>502</html>", Err),
      Body("{\"message\":\"not found\"}", Ok(JObj([message |-> JStr("not found")]))),
      Body("{\"error\":\"invalid_request\"}", Ok(JObj([error |-> JStr("invalid_request")]))),
      Body("{\"error\":{\"code\":190}}", Ok(JObj([error |-> JObj([code |-> JNum(190)])]))),
      Body("{\"error\":{\"message\":\"Rate limit exceeded\"}}",
           Ok(JObj([error |-> JObj([message |-> JStr("Rate limit exceeded")])]))),
      Body("{\"error\":{\"message\":\"Expired\",\"code\":\"190\"}}",
           Ok(JObj([error |-> JObj([message |-> JStr("Expired"), code |-> JStr("190")])]))),
      Body("{\"error\":{\"message\":\"Boom\",\"code\":4,\"error_data\":{\"details\":7}}}",
           Ok(JObj([error |-> JObj([message |-> JStr("Boom"), code |-> JNum(4),
                                    error_data |-> JObj([details |-> JNum(7)])])]))),
      Body("null", Ok(JNull)) }

MediaUrl == "https://lookaside.fbsbx.com/whatsapp_business/attachments/?mid=1"

\* bodies of successful calls: SuccessResponse, MediaUploadResponse,
\* MediaUrlResponse
SuccessBodies ==
    { Body("{\"success\":true}", Ok(JObj([success |-> JBool(TRUE)]))),
      Body("{\"id\":\"media.1\"}", Ok(JObj([id |-> JStr("media.1")]))),
      Body("{\"messaging_product\":\"whatsapp\",\"url\":\"" \o MediaUrl
             \o "\",\"mime_type\":\"image/jpeg\",\"sha256\":\"c0ffee\",\"file_size\":1024,\"id\":\"media.1\"}",
           Ok(JObj([messaging_product |-> JStr("whatsapp"), url |-> JStr(MediaUrl),
                    mime_type |-> JStr("image/jpeg"), sha256 |-> JStr("c0ffee"),
                    file_size |-> JNum(1024), id |-> JStr("media.1")]))) }

Bodies == EnvelopeBodies \cup OtherErrorBodies \cup SuccessBodies

Statuses == {200, 201, 302, 400, 401, 404, 429, 500}

Response(status, body) == [status |-> status, body |-> body]

Responses == {Response(st, b) : st \in Statuses, b \in Bodies}

Tokens == {"secret_token", "EAAG.live"}

\* "aGk=" (the bytes "hi"), "aGVsbG8=" ("hello") and the empty text
ValidBase64 ==
    { <<97, 71, 107, 61>>, <<97, 71, 86, 115, 98, 71, 56, 61>>, <<>> }

\* "a$k=", "aGk" (padding missing), "a===", "aGl=" (stray bits), "aG k",
\* "=aGk", "aGk=aGk=" (padding inside)
InvalidBase64 ==
    { <<97, 36, 107, 61>>, <<97, 71, 107>>, <<97, 61, 61, 61>>,
      <<97, 71, 108, 61>>, <<97, 71, 32, 107>>, <<61, 97, 71, 107>>,
      <<97, 71, 107, 61, 97, 71, 107, 61>> }

\* the arguments of upload_base64: every text with a good MIME type, and a
\* good text with a bad one
UploadInputs ==
    { [data |-> d, filename |-> "photo.jpg", mime_type |-> "image/jpeg"] :
        d \in ValidBase64 \cup InvalidBase64 }
    \cup { [data |-> <<97, 71, 107, 61>>, filename |-> "photo.jpg",
            mime_type |-> "not a mime"] }

(***************************************************************************)
(* Client: construction, handles, accessors and Debug                      *)
(* (src/src/client.rs:22-111, 226-307).  A handle is modelled by the       *)
(* ClientInner its Arc points to; the reqwest client inside is left out.   *)
(***************************************************************************)
\* src/src/types.rs:6 and 9
DEFAULT_API_VERSION == "v21.0"
GRAPH_API_URL == "https://graph.facebook.com"

\* Client::with_config (client.rs:65-85)
with_config(token, phone_number_id, api_version, base_url) ==
    [access_token |-> token, phone_number_id |-> phone_number_id,
     api_version |-> api_version, base_url |-> base_url]

\* Client::with_version (client.rs:56-62)
with_version(token, phone_number_id, api_version) ==
    with_config(token, phone_number_id, api_version, GRAPH_API_URL)

\* Client::new (client.rs:51-53)
new(token, phone_number_id) ==
    with_config(token, phone_number_id, DEFAULT_API_VERSION, GRAPH_API_URL)

\* a constructor call: the constructor's name and its arguments, None for
\* an argument the constructor does not take
Call(ctor, token, phone_number_id, api_version, base_url) ==
    [ctor |-> ctor, access_token |-> token, phone_number_id |-> phone_number_id,
     api_version |-> api_version, base_url |-> base_url]

Construct(call) ==
    CASE call.ctor = "new" -> new(call.access_token, call.phone_number_id)
      [] call.ctor = "with_version" ->
           with_version(call.access_token, call.phone_number_id,
                        Unwrap(call.api_version))
      [] call.ctor = "with_config" ->
           with_config(call.access_token, call.phone_number_id,
                       Unwrap(call.api_version), Unwrap(call.base_url))

Clone_Rebuilt(inner) == new(inner.access_token, inner.phone_number_id)

\* Client::clone, derived (client.rs:23-26): another Arc to the same inner
Clone(inner) == inner

\* Client::phone_number_id, api_version, base_url (client.rs:88-103)
phone_number_id(inner) == inner.phone_number_id
api_version(inner) == inner.api_version
base_url(inner) ==
    inner.base_url \o "/" \o inner.api_version \o "/" \o inner.phone_number_id

\* Debug of a str
DebugStr(x) == "\"" \o x \o "\""

DebugFmt_Derived(inner) ==
    "Client { access_token: " \o DebugStr(inner.access_token)
    \o ", phone_number_id: " \o DebugStr(inner.phone_number_id)
    \o ", api_version: " \o DebugStr(inner.api_version)
    \o ", base_url: " \o DebugStr(inner.base_url) \o " }"

\* impl Debug for Client (client.rs:299-307)
DebugFmt(inner) ==
    "Client { phone_number_id: " \o DebugStr(inner.phone_number_id)
    \o ", api_version: " \o DebugStr(inner.api_version)
    \o ", base_url: " \o DebugStr(inner.base_url) \o " }"

\* the constructor calls: the tests' calls, and new with another token
ConstructorCalls ==
    { Call("new", t, "phone_123", None, None) : t \in Tokens }
    \cup { Call("with_version", "secret_token", "phone_123", Some("v20.0"), None),
           Call("with_config", "secret_token", "phone_123", Some("v20.0"),
                Some("https://custom.api.com")) }

(***************************************************************************)
(* One call of a resource operation, step by step.                         *)
(***************************************************************************)
\* Client::get / post / post_form / delete up to .send() (client.rs:129-195);
\* MediaApi::download begins with get_url, which is Client::get
SendStep ==
    /\ api_pc = "start"
    /\ requests' = Append(requests, ClientRequest(op, access_token))
    /\ api_pc' = "sent"
    /\ UNCHANGED <<access_token, op, upload, response, outcome, media_info>>
    /\ UNCHANGED sigVars
    /\ UNCHANGED hookVars
    /\ UNCHANGED clientVars
    /\ UNCHANGED threadVars

\* the server answers the request in flight
RespondStep ==
    /\ api_pc \in {"sent", "content_sent"}
    /\ \E r \in Responses : response' = Some(r)
    /\ api_pc' = IF api_pc = "sent" THEN "received" ELSE "content_received"
    /\ UNCHANGED <<access_token, op, upload, requests, outcome, media_info>>
    /\ UNCHANGED sigVars
    /\ UNCHANGED hookVars
    /\ UNCHANGED clientVars
    /\ UNCHANGED threadVars

\* .send().await?, response.text().await? or response.bytes().await? fails:
\* reqwest::Error becomes Error::Request and the operation returns
TransportFailStep ==
    /\ api_pc \in {"sent", "received", "content_sent", "content_received"}
    /\ outcome' = Some(Failure(ErrorRequest))
    /\ api_pc' = "done"
    /\ UNCHANGED <<access_token, op, upload, requests, response, media_info>>
    /\ UNCHANGED sigVars
    /\ UNCHANGED hookVars
    /\ UNCHANGED clientVars
    /\ UNCHANGED threadVars

HandleResponseStep_RetryRateLimited ==
    /\ api_pc = "received"
    /\ LET res == handle_response(ResponseType(op), Unwrap(response))
       IN  IF res = Failure(RateLimited(None)) /\ Len(requests) < 3
           THEN /\ api_pc' = "start"
                /\ UNCHANGED <<requests, outcome, media_info>>
           ELSE IF op = "download" /\ IsSuccessful(res)
           THEN /\ media_info' = Some(res.ok)
                /\ requests' = Append(requests, ContentRequest)
                /\ api_pc' = "content_sent"
                /\ UNCHANGED outcome
           ELSE /\ outcome' = Some(res)
                /\ api_pc' = "done"
                /\ UNCHANGED <<requests, media_info>>
    /\ UNCHANGED <<access_token, op, upload, response>>
    /\ UNCHANGED sigVars
    /\ UNCHANGED hookVars
    /\ UNCHANGED clientVars
    /\ UNCHANGED threadVars

\* self.handle_response(response).await; every operation but download
\* returns its result, download returns its error or goes on with the url
HandleResponseStep ==
    /\ api_pc = "received"
    /\ LET res == handle_response(ResponseType(op), Unwrap(response))
       IN  IF op = "download" /\ IsSuccessful(res)
           THEN /\ media_info' = Some(res.ok)
                /\ requests' = Append(requests, ContentRequest)
                /\ api_pc' = "content_sent"
                /\ UNCHANGED outcome
           ELSE /\ outcome' = Some(res)
                /\ api_pc' = "done"
                /\ UNCHANGED <<requests, media_info>>
    /\ UNCHANGED <<access_token, op, upload, response>>
    /\ UNCHANGED sigVars
    /\ UNCHANGED hookVars
    /\ UNCHANGED clientVars
    /\ UNCHANGED threadVars

\* MediaApi::download after its content request was answered (media.rs:144-151)
DownloadContentStep ==
    /\ api_pc = "content_received"
    /\ outcome' = Some(download_content(Unwrap(response)))
    /\ api_pc' = "done"
    /\ UNCHANGED <<access_token, op, upload, requests, response, media_info>>
    /\ UNCHANGED sigVars
    /\ UNCHANGED hookVars
    /\ UNCHANGED clientVars
    /\ UNCHANGED threadVars

\* MediaApi::upload_base64 up to the call of post_form (media.rs:91-103,
\* 70-81): a text that does not decode, or a MIME type that does not parse,
\* ends the operation here
UploadBase64Step ==
    /\ api_pc = "decode"
    /\ LET failed == upload_base64(Unwrap(upload).data, Unwrap(upload).mime_type)
       IN  IF IsSome(failed)
           THEN /\ outcome' = Some(Failure(Unwrap(failed)))
                /\ api_pc' = "done"
           ELSE /\ api_pc' = "start"
                /\ UNCHANGED outcome
    /\ UNCHANGED <<access_token, op, upload, requests, response, media_info>>
    /\ UNCHANGED sigVars
    /\ UNCHANGED hookVars
    /\ UNCHANGED clientVars
    /\ UNCHANGED threadVars

InitApi ==
    /\ args \in {Some(Call("new", t, "phone_123", None, None)) : t \in Tokens}
    /\ clients = <<Construct(Unwrap(args))>>
    /\ access_token = Unwrap(args).access_token
    /\ op \in Ops
    /\ api_pc = IF op = "upload_base64" THEN "decode" ELSE "start"
    /\ requests = <<>>
    /\ response = None
    /\ outcome = None
    /\ media_info = None
    /\ upload \in IF op = "upload_base64" THEN {Some(u) : u \in UploadInputs}
                 ELSE {None}
    /\ events2 = None
    /\ debug_out = None
    /\ threads = <<>>
    /\ raw = None
    /\ webhook = None
    /\ events = None
    /\ printed = None
    /\ payload = <<>>
    /\ signature = <<>>
    /\ app_secret = <<>>
    /\ pc = "idle"
    /\ sig = <<>>
    /\ key = <<>>
    /\ computed = <<>>
    /\ cmp_i = 0
    /\ cmp_steps = 0
    /\ result = None

NextApi ==
    \/ SendStep
    \/ RespondStep
    \/ TransportFailStep
    \/ HandleResponseStep
    \/ DownloadContentStep
    \/ UploadBase64Step

SpecApi == InitApi /\ [][NextApi]_vars

(***************************************************************************)
(* The life of a Client: clones, Debug and a post                          *)
(***************************************************************************)
\* the most handles alive at once
MaxHandles == 3

\* client.clone(), also as every API accessor calls it: XApi::new(self.clone())
\* (client.rs:227-296)
CloneStep ==
    /\ Len(clients) >= 1
    /\ Len(clients) < MaxHandles
    /\ \E i \in 1..Len(clients) : clients' = Append(clients, Clone(clients[i]))
    /\ UNCHANGED <<args, debug_out>>
    /\ UNCHANGED sigVars
    /\ UNCHANGED hookVars
    /\ UNCHANGED apiVars
    /\ UNCHANGED threadVars

\* format!("{:?}", handle)
DebugStep ==
    /\ debug_out = None
    /\ \E i \in 1..Len(clients) : debug_out' = Some(DebugFmt(clients[i]))
    /\ UNCHANGED <<args, clients>>
    /\ UNCHANGED sigVars
    /\ UNCHANGED hookVars
    /\ UNCHANGED apiVars
    /\ UNCHANGED threadVars

\* a client out of one of the constructors, about to post
InitClient ==
    /\ args \in {Some(c) : c \in ConstructorCalls}
    /\ clients = <<Construct(Unwrap(args))>>
    /\ debug_out = None
    /\ access_token = Unwrap(args).access_token
    /\ op = "post"
    /\ api_pc = "start"
    /\ requests = <<>>
    /\ response = None
    /\ outcome = None
    /\ media_info = None
    /\ upload = None
    /\ events2 = None
    /\ threads = <<>>
    /\ raw = None
    /\ webhook = None
    /\ events = None
    /\ printed = None
    /\ payload = <<>>
    /\ signature = <<>>
    /\ app_secret = <<>>
    /\ pc = "idle"
    /\ sig = <<>>
    /\ key = <<>>
    /\ computed = <<>>
    /\ cmp_i = 0
    /\ cmp_steps = 0
    /\ result = None

NextClient ==
    \/ CloneStep
    \/ DebugStep
    \/ SendStep
    \/ RespondStep
    \/ TransportFailStep
    \/ HandleResponseStep

SpecClient == InitClient /\ [][NextClient]_vars

(***************************************************************************)
(* Concurrent invocations of verify_signature (webhooks.rs:723-738),       *)
(* WebhookPayload::events (webhooks.rs:527-709) and Error::from            *)
(* (error.rs:96-112).  Every invocation runs on a thread of its own; its   *)
(* arguments are borrowed (&[u8], &str, &self) or moved in, and sig, key,  *)
(* computed and events are `let` bindings of the invocation.  No static,   *)
(* no Cell and no Mutex occurs in the three bodies.                        *)
(***************************************************************************)
NumThreads == 2

\* the arguments of the verify_signature calls: the digest the code itself
\* computes for the body, prefixed, and the digest under another secret, bare
VerifyCalls ==
    << [payload |-> BodyA, app_secret |-> SecretK,
        signature |-> Sha256Prefix \o HexEncode(mac(BodyA, SecretK))],
       [payload |-> BodyA, app_secret |-> SecretJefe,
        signature |-> HexEncode(mac(BodyA, SecretK))] >>

\* the payload events() is called on: an entry with a message, then an
\* entry with two statuses
EventsCalls ==
    << FromJson(RawPayload(
         <<RawEntry("1", <<RawChange(Some(<<RawMessage("1", Palette[1])>>), None)>>),
           RawEntry("2", <<RawChange(None, Some(<<RawStatus("2", StatusShapes[1]),
                                                  RawStatus("3", StatusShapes[2])>>))>>)>>))[1] >>

\* the envelopes Error::from is called on
FromCalls ==
    << FromText("ApiErrorResponse", EnvelopeBody(4, "Rate limit exceeded", 1))[1],
       FromText("ApiErrorResponse", EnvelopeBody(131026, "Rate limit exceeded", 3))[1] >>

\* a call: the function and which of its argument lists
ThreadCalls ==
    {<<"verify_signature", k>> : k \in 1..Len(VerifyCalls)}
    \cup {<<"events", k>> : k \in 1..Len(EventsCalls)}
    \cup {<<"from", k>> : k \in 1..Len(FromCalls)}

\* the first statement of each function
EntryPoint(fn) ==
    CASE fn = "verify_signature" -> "strip"
      [] fn = "events" -> "new"
      [] fn = "from" -> "match"

\* the locals of an invocation before its first statement
EmptyFrame == [sig |-> <<>>, key |-> <<>>, computed |-> <<>>, events |-> <<>>]

\* a thread about to run the call: its position (pc, and the indices e and c
\* of the two for loops of events), its locals and its return value;
\* `overlap` records that it took a step while another call was under way
Thread(call) ==
    [call |-> call, pc |-> EntryPoint(call[1]), e |-> 1, c |-> 1,
     frame |-> EmptyFrame, ret |-> None, overlap |-> FALSE]

Local_Static(ths, t) == ths[1].frame

\* where the statements of thread t find their locals: its own stack frame
Local(ths, t) == ths[t].frame

\* another call has started and has not returned
OthersUnderWay(t) ==
    \E u \in DOMAIN threads :
        /\ u # t
        /\ threads[u].pc \notin {EntryPoint(threads[u].call[1]), "done"}

\* thread t is at the statement `at` of fn
ThreadAt(t, fn, at) ==
    /\ threads[t].call[1] = fn
    /\ threads[t].pc = at

ThreadUnchanged ==
    /\ UNCHANGED sigVars
    /\ UNCHANGED hookVars
    /\ UNCHANGED apiVars
    /\ UNCHANGED clientVars

\* webhooks.rs:727
ThreadStripStep(t) ==
    /\ ThreadAt(t, "verify_signature", "strip")
    /\ threads' = [threads EXCEPT
          ![t].frame.sig = StripPrefix(VerifyCalls[threads[t].call[2]].signature,
                                       Sha256Prefix),
          ![t].pc = "mac",
          ![t].overlap = @ \/ OthersUnderWay(t)]
    /\ ThreadUnchanged

\* webhooks.rs:730
ThreadMacStep(t) ==
    /\ ThreadAt(t, "verify_signature", "mac")
    /\ threads' = [threads EXCEPT
          ![t].frame.key = mac(VerifyCalls[threads[t].call[2]].payload,
                               VerifyCalls[threads[t].call[2]].app_secret),
          ![t].pc = "hex",
          ![t].overlap = @ \/ OthersUnderWay(t)]
    /\ ThreadUnchanged

\* webhooks.rs:731-734
ThreadHexStep(t) ==
    /\ ThreadAt(t, "verify_signature", "hex")
    /\ threads' = [threads EXCEPT
          ![t].frame.computed = HexEncode(Local(threads, t).key),
          ![t].pc = "compare",
          ![t].overlap = @ \/ OthersUnderWay(t)]
    /\ ThreadUnchanged

\* webhooks.rs:737
ThreadCompareStep(t) ==
    /\ ThreadAt(t, "verify_signature", "compare")
    /\ threads' = [threads EXCEPT
          ![t].ret = Some(Local(threads, t).computed = Local(threads, t).sig),
          ![t].pc = "done",
          ![t].overlap = @ \/ OthersUnderWay(t)]
    /\ ThreadUnchanged

\* webhooks.rs:528, let mut events = Vec::new()
ThreadNewVecStep(t) ==
    /\ ThreadAt(t, "events", "new")
    /\ threads' = [threads EXCEPT
          ![t].frame.events = <<>>,
          ![t].pc = "loop",
          ![t].overlap = @ \/ OthersUnderWay(t)]
    /\ ThreadUnchanged

\* webhooks.rs:530-706, one turn of the loops: the next change of the entry,
\* the next entry, or the end of the outer loop
ThreadLoopStep(t) ==
    /\ ThreadAt(t, "events", "loop")
    /\ LET self == EventsCalls[threads[t].call[2]]
           e == threads[t].e
           c == threads[t].c
       IN  threads' =
             IF e > Len(self.entry)
             THEN [threads EXCEPT ![t].pc = "return",
                                  ![t].overlap = @ \/ OthersUnderWay(t)]
             ELSE IF c > Len(self.entry[e].changes)
             THEN [threads EXCEPT ![t].e = e + 1, ![t].c = 1,
                                  ![t].overlap = @ \/ OthersUnderWay(t)]
             ELSE [threads EXCEPT
                     ![t].frame.events =
                         PushChange(Local(threads, t).events, self.entry[e].changes[c]),
                     ![t].c = c + 1,
                     ![t].overlap = @ \/ OthersUnderWay(t)]
    /\ ThreadUnchanged

\* webhooks.rs:708
ThreadReturnStep(t) ==
    /\ ThreadAt(t, "events", "return")
    /\ threads' = [threads EXCEPT
          ![t].ret = Some(Local(threads, t).events),
          ![t].pc = "done",
          ![t].overlap = @ \/ OthersUnderWay(t)]
    /\ ThreadUnchanged

\* error.rs:97-111, the match on the code of the envelope moved in
ThreadFromStep(t) ==
    /\ ThreadAt(t, "from", "match")
    /\ threads' = [threads EXCEPT
          ![t].ret = Some(ErrorFrom(FromCalls[threads[t].call[2]])),
          ![t].pc = "done",
          ![t].overlap = @ \/ OthersUnderWay(t)]
    /\ ThreadUnchanged

\* NumThreads threads, each about to make one of the calls
InitThreads ==
    /\ threads \in [1..NumThreads -> {Thread(call) : call \in ThreadCalls}]
    /\ args = None
    /\ clients = <<>>
    /\ debug_out = None
    /\ access_token = ""
    /\ op = "none"
    /\ api_pc = "idle"
    /\ requests = <<>>
    /\ response = None
    /\ outcome = None
    /\ media_info = None
    /\ upload = None
    /\ events2 = None
    /\ raw = None
    /\ webhook = None
    /\ events = None
    /\ printed = None
    /\ payload = <<>>
    /\ signature = <<>>
    /\ app_secret = <<>>
    /\ pc = "idle"
    /\ sig = <<>>
    /\ key = <<>>
    /\ computed = <<>>
    /\ cmp_i = 0
    /\ cmp_steps = 0
    /\ result = None

\* the scheduler runs the next statement of any thread
NextThreads ==
    \E t \in 1..NumThreads :
        \/ ThreadStripStep(t)
        \/ ThreadMacStep(t)
        \/ ThreadHexStep(t)
        \/ ThreadCompareStep(t)
        \/ ThreadNewVecStep(t)
        \/ ThreadLoopStep(t)
        \/ ThreadReturnStep(t)
        \/ ThreadFromStep(t)

SpecThreads == InitThreads /\ [][NextThreads]_vars

(***************************************************************************)
(* Claims about verify_signature, checked under SpecSig                    *)
(***************************************************************************)
\* the headers the platform sends for body b under secret s
PlatformHeaders(b, s) == {HmacHex(b, s), Sha256Prefix \o HmacHex(b, s)}

\* C1: verify_signature returns true when the header is the lowercase-hex
\* keyed digest (HMAC-SHA256) of exactly the body bytes under the secret,
\* bare or prefixed with "sha256=", and returns false for every single-bit
\* mutation of the body or of the header.
C1_VerifyAcceptsKeyedDigest ==
    pc = "done" =>
        /\ (payload \in SigBodies
            /\ signature \in PlatformHeaders(payload, app_secret))
           => result = Some(TRUE)
        /\ (payload \in SigBodies
            /\ \E h \in PlatformHeaders(payload, app_secret) :
                  signature \in HeaderFlips(h))
           => result = Some(FALSE)
        /\ (\E b \in SigBodies :
               /\ payload \in BodyFlips(b)
               /\ signature \in PlatformHeaders(b, app_secret))
           => result = Some(FALSE)

\* C2: the digest verify_signature compares against the header is the
\* HMAC-SHA256 of the raw body under the secret, and each of its 32 bytes
\* depends on the inputs (no byte has the same value for every body and key).
C2_DigestIsHmacSha256 ==
    (pc \in {"hex", "cmp_len", "cmp_bytes", "done"} /\ payload \in SigBodies) =>
        /\ key = HmacSha256(payload, app_secret)
        /\ \A i \in 1..32 :
              \E b \in SigBodies, s \in SigSecrets : mac(b, s)[i] # key[i]

\* C3: the comparison of the hex digest with the signature has no early exit:
\* whenever the two have the same length, every one of their bytes is
\* compared, wherever the first mismatch is.
C3_CompareIsConstantTime ==
    (pc = "done" /\ Len(sig) = Len(computed)) => cmp_steps = Len(computed)

(***************************************************************************)
(* Claims about parsing and events(), checked under SpecHook               *)
(***************************************************************************)
\* the payload that deserialized and the events made from it
Parsed == Unwrap(webhook)[1]
Produced == Unwrap(events)

\* the number of units (messages and statuses) of a deserialized change
UnitsOfChange(change) ==
    (IF IsSome(change.value.messages) THEN Len(Unwrap(change.value.messages)) ELSE 0)
    + (IF IsSome(change.value.statuses) THEN Len(Unwrap(change.value.statuses)) ELSE 0)

MessagesOfChange(change) ==
    IF IsSome(change.value.messages) THEN Len(Unwrap(change.value.messages)) ELSE 0

\* the number of units in the changes before change c of an entry
RECURSIVE UnitsBeforeChange(_, _)
UnitsBeforeChange(changes, c) ==
    IF c <= 1 THEN 0
    ELSE UnitsBeforeChange(changes, c - 1) + UnitsOfChange(changes[c - 1])

\* the number of units in the entries before entry e
RECURSIVE UnitsBeforeEntry(_, _)
UnitsBeforeEntry(entry, e) ==
    IF e <= 1 THEN 0
    ELSE UnitsBeforeEntry(entry, e - 1)
         + UnitsBeforeChange(entry[e - 1].changes, Len(entry[e - 1].changes) + 1)

\* the index in the result of the first unit of change c of entry e, less one
Offset(w, e, c) == UnitsBeforeEntry(w.entry, e) + UnitsBeforeChange(w.entry[e].changes, c)

\* C5: events() returns exactly one event per message and one per status
\* (none when no value carries a list), ordered by entry, then change, and
\* within a change the messages in array order, then the statuses in array
\* order.
C5_OneEventPerUnitInOrder ==
    IsSome(events) =>
        /\ Len(Produced) = UnitsBeforeEntry(Parsed.entry, Len(Parsed.entry) + 1)
        /\ \A e \in 1..Len(Parsed.entry) :
             \A c \in 1..Len(Parsed.entry[e].changes) :
                LET chval == Parsed.entry[e].changes[c].value
                    base == Offset(Parsed, e, c)
                    nm == MessagesOfChange(Parsed.entry[e].changes[c])
                IN  /\ IsSome(chval.messages) =>
                          \A i \in 1..Len(Unwrap(chval.messages)) :
                             Produced[base + i] = MessageEvent(Unwrap(chval.messages)[i])
                    /\ IsSome(chval.statuses) =>
                          \A j \in 1..Len(Unwrap(chval.statuses)) :
                             Produced[base + nm + j] = StatusEvent(Unwrap(chval.statuses)[j])

\* an envelope of two entries, one of whose changes carries two messages and
\* two statuses of different kinds, has been classified
C5_Witness ==
    /\ IsSome(events)
    /\ Len(Parsed.entry) = MaxEntries
    /\ \E e \in 1..Len(Parsed.entry) :
         /\ Len(Parsed.entry[e].changes) = MaxChanges
         /\ \E c \in 1..Len(Parsed.entry[e].changes) :
              LET chval == Parsed.entry[e].changes[c].value
              IN  /\ IsSome(chval.messages)
                  /\ IsSome(chval.statuses)
                  /\ Len(Unwrap(chval.messages)) = MaxMessages
                  /\ Len(Unwrap(chval.statuses)) = MaxStatuses
                  /\ Offset(Parsed, e, c) > 0
                  /\ Produced[Offset(Parsed, e, c) + 1].variant
                        # Produced[Offset(Parsed, e, c) + MaxMessages + 1].variant

\* the events of the well-formed units of a batch
BatchFirst ==
    [variant |-> "TextMessage", from |-> "628111", text |-> "Hello, World!",
     message_id |-> "wamid.1"]
BatchThird ==
    [variant |-> "ImageMessage", from |-> "628113", media_id |-> "media.img",
     message_id |-> "wamid.3", caption |-> Some("Check this out!")]
BatchStatus ==
    [variant |-> "MessageSent", message_id |-> "wamid.out.4", recipient |-> "628224"]

\* the body is a batch whose second message has one of the given shapes
IsBatchOf(shapes) == \E k \in 1..Len(shapes) : raw = Batch(shapes[k])

\* the body is a single message of one of the given shapes
IsSingleOf(shapes) == \E k \in 1..Len(shapes) : raw = Single(shapes[k])

\* C6: an envelope in which one message has a malformed or partially
\* populated sub-object (such as a text object without body) still parses,
\* that message is classified as Unknown, and every other message and status
\* of the envelope is classified normally.
C6_MalformedSubObjectDegrades ==
    (IsBatchOf(MalformedShapes) /\ IsSome(webhook)) =>
        /\ IsOk(Unwrap(webhook))
        /\ IsSome(events) =>
              Produced = <<BatchFirst, Unknown, BatchThird, BatchStatus>>

\* the known kinds, with no sub-object
KnownKinds ==
    <<"text", "image", "video", "audio", "document", "sticker", "location",
      "contacts", "reaction", "interactive">>
KnownAbsentShapes == [k \in 1..Len(KnownKinds) |-> Shape(KnownKinds[k], NoSub)]

\* C7: a message whose discriminator names a known kind but whose matching
\* sub-object is absent is classified as Unknown, and the rest of the batch
\* is classified as usual.
C7_AbsentSubObjectIsUnknown ==
    /\ (IsBatchOf(KnownAbsentShapes) /\ IsSome(events)) =>
          Produced = <<BatchFirst, Unknown, BatchThird, BatchStatus>>
    /\ (IsSingleOf(KnownAbsentShapes) /\ IsSome(events)) =>
          Produced = <<Unknown>>

\* the shape of the single message of the body
SingleShape == MessageShapes[CHOOSE k \in 1..Len(MessageShapes) : raw = Single(MessageShapes[k])]

\* the sub-object matching the discriminator of a shape is there and not null
SubPresent(shape) ==
    /\ shape.type \in DOMAIN shape.sub
    /\ JKind(shape.sub[shape.type]) # "null"

\* the inner type of an interactive shape names an inner object that is there
InnerAgrees(shape) ==
    LET inner == shape.sub.interactive.obj
    IN  \/ inner.type.str = "button_reply" /\ "button_reply" \in DOMAIN inner
        \/ inner.type.str = "list_reply" /\ "list_reply" \in DOMAIN inner

DocumentedKinds ==
    {"text", "image", "video", "audio", "document", "sticker", "location",
     "contacts", "reaction", "interactive", "button", "system"}

\* the kinds with an arm of their own in events()
HandledKinds == DocumentedKinds \ {"button", "system"}

\* the typed variants of a kind
VariantsOf(kind) ==
    CASE kind = "text" -> {"TextMessage"}
      [] kind = "image" -> {"ImageMessage"}
      [] kind = "video" -> {"VideoMessage"}
      [] kind = "audio" -> {"AudioMessage"}
      [] kind = "document" -> {"DocumentMessage"}
      [] kind = "sticker" -> {"StickerMessage"}
      [] kind = "location" -> {"LocationMessage"}
      [] kind = "contacts" -> {"ContactMessage"}
      [] kind = "reaction" -> {"Reaction"}
      [] kind = "interactive" -> {"ButtonReply", "ListReply"}
      [] kind = "button" -> {"ButtonMessage"}
      [] kind = "system" -> {"SystemMessage"}

FieldOrNone(obj, f) == IF f \in DOMAIN obj THEN Some(obj[f].str) ELSE None

\* the event the fixture of a shape stands for, read off its JSON
ExpectedPayloadEvent(shape) ==
    LET sub == shape.sub[shape.type].obj
    IN  CASE shape.type = "text" ->
               [variant |-> "TextMessage", from |-> "628111",
                text |-> sub.body.str, message_id |-> "wamid.1"]
          [] shape.type = "image" ->
               [variant |-> "ImageMessage", from |-> "628111",
                media_id |-> sub.id.str, message_id |-> "wamid.1",
                caption |-> FieldOrNone(sub, "caption")]
          [] shape.type = "video" ->
               [variant |-> "VideoMessage", from |-> "628111",
                media_id |-> sub.id.str, message_id |-> "wamid.1",
                caption |-> FieldOrNone(sub, "caption")]
          [] shape.type = "audio" ->
               [variant |-> "AudioMessage", from |-> "628111",
                media_id |-> sub.id.str, message_id |-> "wamid.1"]
          [] shape.type = "document" ->
               [variant |-> "DocumentMessage", from |-> "628111",
                media_id |-> sub.id.str, message_id |-> "wamid.1",
                filename |-> FieldOrNone(sub, "filename")]
          [] shape.type = "sticker" ->
               [variant |-> "StickerMessage", from |-> "628111",
                media_id |-> sub.id.str, message_id |-> "wamid.1"]
          [] shape.type = "location" ->
               [variant |-> "LocationMessage", from |-> "628111",
                latitude |-> sub.latitude.num, longitude |-> sub.longitude.num,
                message_id |-> "wamid.1"]

PayloadKinds == {"text", "image", "video", "audio", "document", "sticker", "location"}

\* C9: a message of type text, image, video, audio, document, sticker or
\* location whose sub-object is present gives the variant of that kind with
\* from the sender, message_id the message's id and the payload fields
\* copied from the sub-object (body; media id with caption for image and
\* video, filename for document; latitude and longitude).
C9_PayloadFieldsCopied ==
    (/\ IsSingleOf(PresentShapes)
     /\ SingleShape.type \in PayloadKinds
     /\ IsSome(events))
        => Produced = <<ExpectedPayloadEvent(SingleShape)>>

\* a document with both a filename and a caption has been classified
C9_Witness ==
    /\ IsSome(events)
    /\ raw = Single(Shape("document", SubDocument))
    /\ Produced[1].filename = Some("report.pdf")

\* the event an interactive shape stands for, read off its JSON
ExpectedInteractiveEvent(shape) ==
    IF ~SubPresent(shape) THEN Unknown
    ELSE LET inner == shape.sub.interactive.obj
         IN  IF inner.type.str = "button_reply" /\ "button_reply" \in DOMAIN inner
             THEN [variant |-> "ButtonReply", from |-> "628111",
                   button_id |-> inner.button_reply.obj.id.str,
                   button_title |-> inner.button_reply.obj.title.str,
                   message_id |-> "wamid.1"]
             ELSE IF inner.type.str = "list_reply" /\ "list_reply" \in DOMAIN inner
             THEN [variant |-> "ListReply", from |-> "628111",
                   row_id |-> inner.list_reply.obj.id.str,
                   row_title |-> inner.list_reply.obj.title.str,
                   message_id |-> "wamid.1"]
             ELSE Unknown

\* C10: an interactive message gives ButtonReply only when the inner type is
\* button_reply and the button_reply object is present, ListReply only when
\* the inner type is list_reply and the list_reply object is present, and
\* Unknown for any other inner type, a disagreeing inner object or a missing
\* interactive object.
C10_InteractiveNeedsAgreement ==
    (/\ IsSingleOf(MessageShapes)
     /\ SingleShape.type = "interactive"
     /\ IsSome(events))
        => Produced = <<ExpectedInteractiveEvent(SingleShape)>>

\* an interactive message whose inner type is list_reply but which carries
\* only a button_reply object has been classified
C10_Witness ==
    /\ IsSome(events)
    /\ raw = Single(Shape("interactive", SubInteractive("list_reply", TRUE, FALSE)))
    /\ Produced = <<Unknown>>

\* C11: a reaction message with its reaction object gives a Reaction event
\* whose message_id is the id of the message reacted to (not the id of the
\* reaction message itself) and whose emoji is copied as it is; an empty
\* emoji still gives a Reaction event.
C11_ReactionCarriesTargetId ==
    (IsSome(events) /\ \E sub \in {SubReaction, SubReactionRemoved} :
                          raw = Single(Shape("reaction", sub)))
        => Produced = <<[variant |-> "Reaction", from |-> "628111",
                         message_id |-> SingleShape.sub.reaction.obj.message_id.str,
                         emoji |-> SingleShape.sub.reaction.obj.emoji.str]>>

\* a reaction with an empty emoji has been classified, and the id it carries
\* is not the id of the reaction message
C11_Witness ==
    /\ IsSome(events)
    /\ raw = Single(Shape("reaction", SubReactionRemoved))
    /\ Produced[1].emoji = ""
    /\ Produced[1].message_id = "wamid.target"
    /\ Parsed.entry[1].changes[1].value.messages = Some(<<Unwrap(Parsed.entry[1].changes[1].value.messages)[1]>>)
    /\ Unwrap(Parsed.entry[1].changes[1].value.messages)[1].id = "wamid.1"

\* an envelope whose only unit is a status of the given shape
SingleStatus(shape) == FlatPayload(None, Some(<<RawStatus("1", shape)>>))

\* the shape of the single status of the body
SingleStatusShape ==
    StatusShapes[CHOOSE k \in 1..Len(StatusShapes) : raw = SingleStatus(StatusShapes[k])]

IsSingleStatus == \E k \in 1..Len(StatusShapes) : raw = SingleStatus(StatusShapes[k])

\* the variant of a status discriminator
StatusVariantOf(discriminator) ==
    CASE discriminator = "sent" -> "MessageSent"
      [] discriminator = "delivered" -> "MessageDelivered"
      [] discriminator = "read" -> "MessageRead"
      [] discriminator = "failed" -> "MessageFailed"
      [] OTHER -> "Unknown"

\* C12: a status gives MessageSent, MessageDelivered, MessageRead or
\* MessageFailed exactly when its discriminator is sent, delivered, read or
\* failed, with the status's message id and recipient id; any other
\* discriminator gives Unknown.
C12_StatusDispatch ==
    (IsSome(events) /\ IsSingleStatus) =>
        /\ Len(Produced) = 1
        /\ Produced[1].variant = StatusVariantOf(SingleStatusShape.status)
        /\ IF SingleStatusShape.status \in {"sent", "delivered", "read", "failed"}
           THEN /\ Produced[1].message_id = "wamid.out.1"
                /\ Produced[1].recipient = "628221"
           ELSE Produced[1] = Unknown

\* a read status has been classified
C12_Witness ==
    /\ IsSome(events)
    /\ raw = SingleStatus([status |-> "read", errors |-> None])
    /\ Produced = <<[variant |-> "MessageRead", message_id |-> "wamid.out.1",
                     recipient |-> "628221"]>>

\* the code of the first element of the errors list of a status shape, 0
\* when the list is absent, null or empty
ExpectedErrorCode(shape) ==
    IF IsSome(shape.errors) /\ JKind(Unwrap(shape.errors)) = "arr"
       /\ Len(Unwrap(shape.errors).arr) > 0
    THEN Unwrap(shape.errors).arr[1].obj.code.num
    ELSE 0

\* C13: the error_code of the MessageFailed event of a failed status is the
\* code of the first element of the status's errors list, and 0 when the
\* list is absent or empty; later elements do not influence it.
C13_FailedCarriesFirstCode ==
    (IsSome(events) /\ IsSingleStatus /\ SingleStatusShape.status = "failed") =>
        Produced = <<[variant |-> "MessageFailed", message_id |-> "wamid.out.1",
                      recipient |-> "628221",
                      error_code |-> ExpectedErrorCode(SingleStatusShape)]>>

\* a failed status with two errors has been classified with the code of the
\* first
C13_Witness ==
    /\ IsSome(events)
    /\ raw = SingleStatus([status |-> "failed",
                           errors |-> Some(JArr(<<JsonError(130472), JsonError(131026)>>))])
    /\ Produced[1].error_code = 130472

\* message shapes whose discriminator is no kind the platform documents
UnrecognisedShapes ==
    <<Shape("unsupported_future_type", NoSub), Shape("unsupported_future_type", SubText),
      Shape("order", SubText)>>

\* C14: a message whose discriminator is not a recognised kind gives exactly
\* one Unknown event at its position, and the messages and the status after
\* it are classified as they are without it.
C14_UnknownKindDoesNotStopBatch ==
    /\ (IsSome(events) /\ IsBatchOf(UnrecognisedShapes)) =>
          Produced = <<BatchFirst, Unknown, BatchThird, BatchStatus>>
    /\ (IsSome(events) /\ IsSingleOf(UnrecognisedShapes)) =>
          Produced = <<Unknown>>

\* a batch with a message of an unsupported kind in the middle has been
\* classified
C14_Witness ==
    /\ IsSome(events)
    /\ raw = Batch(Shape("unsupported_future_type", NoSub))
    /\ Len(Produced) = 4
    /\ Produced[2] = Unknown
    /\ Produced[3].variant = "ImageMessage"

(***************************************************************************)
(* Claims about the inbound flow, checked under SpecFlow                   *)
(***************************************************************************)
\* C4: authentication gates classification: events are produced from a body,
\* and the documented handler processes its messages, only after
\* verify_signature has returned true for that body; when it returns false
\* events() is never reached.
C4_AuthenticationGatesClassification ==
    /\ IsSome(events) => result = Some(TRUE)
    /\ (IsSome(printed) /\ IsOk(Unwrap(printed))) => result = Some(TRUE)


(***************************************************************************)
(* Claims about the resource operations, checked under SpecApi             *)
(***************************************************************************)
\* the operation returned what handle_response made of its first response
Handled ==
    /\ api_pc = "done"
    /\ Len(requests) = 1
    /\ response # None
    /\ outcome # Some(Failure(ErrorRequest))

\* the response is non-2xx and its body parses as the vendor's envelope
EnvelopeFailure ==
    /\ Handled
    /\ ~IsSuccessStatus(Unwrap(response).status)
    /\ IsOk(FromText("ApiErrorResponse", Unwrap(response).body))

\* the members of the envelope's error object, as JSON
EnvelopeMembers == Unwrap(response).body.json[1].obj.error.obj
EnvelopeCode == EnvelopeMembers.code.num
RateLimitCodes == {4, 17, 32, 613}
TokenCodes == {190}
Returned == Unwrap(outcome)

\* C15: a non-2xx response whose body parses as the vendor's error envelope
\* is classified by the envelope's code alone: 190 gives InvalidToken
\* whatever the HTTP status, 4, 17, 32 and 613 give RateLimited with no
\* retry_after, and every other code gives Api.
C15_ClassifiedByCode ==
    EnvelopeFailure =>
        /\ ~IsSuccessful(Returned)
        /\ (EnvelopeCode \in TokenCodes => Returned.err = InvalidToken)
        /\ (EnvelopeCode \in RateLimitCodes => Returned.err = RateLimited(None))
        /\ (EnvelopeCode \notin RateLimitCodes \cup TokenCodes =>
               Returned.err.variant = "Api")

\* code 190 arrived with HTTP 500 (not 401) and was classified InvalidToken
C15_Witness ==
    /\ EnvelopeFailure
    /\ EnvelopeCode \in TokenCodes
    /\ Unwrap(response).status = 500
    /\ Returned = Failure(InvalidToken)

\* the Option<String> a member of a JSON object deserialises to
StringMember(obj, name) ==
    IF name \in DOMAIN obj THEN Some(obj[name].str) ELSE None

\* C16: for every other code the Api error carries the envelope's code,
\* message, error_subcode and error_data unchanged.
C16_ApiCarriesEnvelope ==
    (EnvelopeFailure /\ EnvelopeCode \notin RateLimitCodes \cup TokenCodes) =>
        LET m == EnvelopeMembers
        IN  Returned =
              Failure(Api(m.code.num, m.message.str,
                          IF "error_subcode" \in DOMAIN m
                          THEN Some(m.error_subcode.num) ELSE None,
                          IF "error_data" \in DOMAIN m
                          THEN Some([messaging_product |->
                                       StringMember(m.error_data.obj, "messaging_product"),
                                     details |->
                                       StringMember(m.error_data.obj, "details")])
                          ELSE None))

\* an envelope with subcode and error_data came back as an Api error
C16_Witness ==
    /\ EnvelopeFailure
    /\ EnvelopeCode = 131026
    /\ "error_data" \in DOMAIN EnvelopeMembers
    /\ Returned.err.variant = "Api"
    /\ Returned.err.error_subcode = Some(33)
    /\ Returned.err.error_data # None

\* C17: a non-2xx response whose body does not parse as the envelope gives
\* Api with the HTTP status as code, the raw body text as message, no
\* subcode and no detail; it is neither dropped nor a JSON parse error.
C17_UnparsedBodyFallsBack ==
    (/\ Handled
     /\ ~IsSuccessStatus(Unwrap(response).status)
     /\ ~IsOk(FromText("ApiErrorResponse", Unwrap(response).body))) =>
        Returned = Failure(Api(Unwrap(response).status,
                               Unwrap(response).body.text, None, None))

\* a gateway's plain-text 500 came back as Api{500, "Bad Gateway"}
C17_Witness ==
    /\ Handled
    /\ Unwrap(response) = Response(500, Body("Bad Gateway", Err))
    /\ Returned = Failure(Api(500, "Bad Gateway", None, None))

\* the envelopes that share the code of the response's envelope
SameCodeEnvelopes ==
    {b \in EnvelopeBodies : b.json[1].obj.error.obj.code = EnvelopeMembers.code}

\* C18: the classification never depends on message text: a response with
\* the same HTTP status and the same envelope code gives the same error
\* kind whatever its message, type, trace id and user-facing texts are.
C18_MessageTextIsIgnored ==
    EnvelopeFailure =>
        \A b \in SameCodeEnvelopes :
            LET other == handle_response(ResponseType(op),
                                         Response(Unwrap(response).status, b))
            IN  /\ ~IsSuccessful(other)
                /\ other.err.variant = Returned.err.variant

\* an envelope whose message speaks of a rate limit, with a code that is
\* none of the rate-limit codes, was classified Api
C18_Witness ==
    /\ EnvelopeFailure
    /\ EnvelopeMembers.message = JStr("Rate limit exceeded")
    /\ EnvelopeCode = 100
    /\ Returned.err.variant = "Api"
    /\ \E b \in SameCodeEnvelopes :
           b.json[1].obj.error.obj.message # EnvelopeMembers.message

\* the operation returned after a response arrived and was read
ReturnedOnResponse ==
    /\ api_pc = "done"
    /\ response # None
    /\ outcome # Some(Failure(ErrorRequest))

\* C19: every resource operation hands every non-2xx response it receives
\* to the same error classification (InvalidToken / RateLimited / Api); no
\* operation turns a non-2xx response into another error kind.
C19_EveryFailureIsClassified ==
    (ReturnedOnResponse /\ ~IsSuccessStatus(Unwrap(response).status)) =>
        /\ Returned = handle_response(ResponseType(op), Unwrap(response))
        /\ Returned.err.variant \in {"InvalidToken", "RateLimited", "Api"}

\* C20: every HTTP request sent by any resource operation carries the
\* header Authorization: Bearer followed by the access token the client
\* was constructed with.
C20_EveryRequestBearsTheToken ==
    \A i \in 1..Len(requests) :
        requests[i].authorization = Some("Bearer " \o access_token)


\* the four request methods of Client
ClientOps == {"get", "post", "post_form", "delete"}

\* C21: the client never retries: each call of get, post, post_form or
\* delete sends at most one HTTP request, and a failure response (also a
\* rate limit) is returned to the caller, classified, with no further
\* request.
C21_AtMostOneRequest ==
    op \in ClientOps =>
        /\ Len(requests) <= 1
        /\ (api_pc # "start" => Len(requests) = 1)
        /\ (Handled /\ ~IsSuccessStatus(Unwrap(response).status)) =>
               Returned = handle_response(ResponseType(op), Unwrap(response))

\* a post was answered with a rate limit and returned it after one request
C21_Witness ==
    /\ op = "post"
    /\ api_pc = "done"
    /\ Len(requests) = 1
    /\ response # None
    /\ Unwrap(response).status = 429
    /\ Returned = Failure(RateLimited(None))

\* the response is non-2xx and its body is no vendor envelope
UnparsedFailure ==
    /\ Handled
    /\ ~IsSuccessStatus(Unwrap(response).status)
    /\ ~IsOk(FromText("ApiErrorResponse", Unwrap(response).body))

\* C27 as stated: RateLimited is returned only for an envelope whose code
\* is 4, 17, 32 or 613; an HTTP 429 response with any other envelope code,
\* or with a body that is no envelope, yields the Api error (with the
\* envelope code, or with code 429) and never RateLimited.
C27_Only429CodesAreApi ==
    /\ (Handled /\ ~IsSuccessful(Returned) /\ Returned.err.variant = "RateLimited")
          => (EnvelopeFailure /\ EnvelopeCode \in RateLimitCodes)
    /\ (EnvelopeFailure /\ Unwrap(response).status = 429
          /\ EnvelopeCode \notin RateLimitCodes)
          => (Returned.err.variant = "Api" /\ Returned.err.code = EnvelopeCode)
    /\ (UnparsedFailure /\ Unwrap(response).status = 429)
          => Returned = Failure(Api(429, Unwrap(response).body.text, None, None))

\* C27, amended: RateLimited is returned only for an envelope whose code is
\* 4, 17, 32 or 613; an HTTP 429 response with envelope code 190 yields
\* InvalidToken, with any other envelope code the Api error carrying that
\* code, and with a body that is no envelope the Api error with code 429;
\* none of these is RateLimited.
C27_RateLimitedOnlyByCode ==
    /\ (Handled /\ ~IsSuccessful(Returned) /\ Returned.err.variant = "RateLimited")
          => (EnvelopeFailure /\ EnvelopeCode \in RateLimitCodes)
    /\ (EnvelopeFailure /\ Unwrap(response).status = 429
          /\ EnvelopeCode \notin RateLimitCodes)
          => IF EnvelopeCode \in TokenCodes
             THEN Returned = Failure(InvalidToken)
             ELSE Returned.err.variant = "Api" /\ Returned.err.code = EnvelopeCode
    /\ (UnparsedFailure /\ Unwrap(response).status = 429)
          => Returned = Failure(Api(429, Unwrap(response).body.text, None, None))

\* the response of test_rate_limit_error's kind: HTTP 429, a rate-limit
\* message, a code that is none of the four; it came back as Api
C27_Witness ==
    /\ EnvelopeFailure
    /\ Unwrap(response).status = 429
    /\ EnvelopeCode = 100
    /\ EnvelopeMembers.message = JStr("Rate limit exceeded")
    /\ Returned.err.variant = "Api"
    /\ Returned.err.code = 100

\* C28: a 2xx response is never classified by error code: even when its
\* body is a vendor error envelope, handle_response returns the
\* deserialized success value or a Json error, never InvalidToken,
\* RateLimited or Api.
C28_SuccessStatusIsNeverClassified ==
    (Handled /\ IsSuccessStatus(Unwrap(response).status)) =>
        LET parsed == FromText(ResponseType(op), Unwrap(response).body)
        IN  IF IsOk(parsed) THEN Returned = Success(parsed[1])
            ELSE Returned = Failure(ErrorJson)

\* HTTP 200 with an envelope of code 190 came back as a Json error
C28_Witness ==
    /\ Handled
    /\ Unwrap(response).status = 200
    /\ IsOk(FromText("ApiErrorResponse", Unwrap(response).body))
    /\ EnvelopeCode \in TokenCodes
    /\ Returned = Failure(ErrorJson)


\* C25: verify_signature never raises: for every body, secret and signature
\* string it returns a boolean, and it returns false whenever the stripped
\* signature is not exactly the 64-character lowercase hex digest (the
\* HMAC-SHA256 of the body under the secret).
C25_OnlyTheDigestIsAccepted ==
    pc = "done" =>
        /\ result \in {Some(TRUE), Some(FALSE)}
        /\ (payload \in SigBodies /\ sig # HmacHex(payload, app_secret))
              => result = Some(FALSE)


\* C29: the event sequence depends only on the messages and statuses lists:
\* an envelope that differs only in object, entry id, change field name,
\* metadata, value-level contacts or value-level errors yields an equal
\* event sequence, and value-level errors never produce an event.
C29_EventsReadOnlyMessagesAndStatuses ==
    (IsSome(events) /\ IsOk(Unwrap(webhook))) =>
        \A v \in Variations :
            LET other == FromJson(Vary(raw, v))
            IN  /\ IsOk(other)
                /\ Events(other[1]) = Produced

\* an envelope with two value-level errors, a text message and a status
\* gave the two events of the envelope without the errors
C29_Witness ==
    /\ IsSome(events)
    /\ raw = Vary(PlainPayload, "errors")
    /\ IsSome(Parsed.entry[1].changes[1].value.errors)
    /\ Len(Unwrap(Parsed.entry[1].changes[1].value.errors)) = 2
    /\ Len(Produced) = 2
    /\ Produced = Events(FromJson(PlainPayload)[1])


Supplied ==
    LET call == Unwrap(args)
    IN  [phone_number_id |-> call.phone_number_id,
         api_version |-> IF IsSome(call.api_version) THEN Unwrap(call.api_version)
                         ELSE "v21.0",
         base_url |-> IF IsSome(call.base_url) THEN Unwrap(call.base_url)
                      ELSE "https://graph.facebook.com"]

\* C22 as stated: after any sequence of clones, API accessor calls and
\* successful or failed requests, phone_number_id(), api_version() and
\* base_url() of the client and of every clone return the values supplied
\* at construction.
C22_AccessorsReturnSupplied ==
    \A i \in 1..Len(clients) :
        /\ phone_number_id(clients[i]) = Supplied.phone_number_id
        /\ api_version(clients[i]) = Supplied.api_version
        /\ base_url(clients[i]) = Supplied.base_url

\* C22, amended: after any sequence of clones, API accessor calls and
\* successful or failed requests, phone_number_id() and api_version() of
\* the client and of every clone return the values supplied at
\* construction, and base_url() returns the supplied base URL followed by
\* "/", the supplied version, "/" and the supplied phone number id.
C22_ConfigurationIsReadOnly ==
    \A i \in 1..Len(clients) :
        /\ phone_number_id(clients[i]) = Supplied.phone_number_id
        /\ api_version(clients[i]) = Supplied.api_version
        /\ base_url(clients[i]) =
              Supplied.base_url \o "/" \o Supplied.api_version \o "/"
                  \o Supplied.phone_number_id
        /\ clients[i].base_url = Supplied.base_url
        /\ clients[i].access_token = access_token

\* a client built by with_config was cloned twice and its post failed; the
\* last clone still gives the configured values
C22_Witness ==
    /\ Unwrap(args).ctor = "with_config"
    /\ Len(clients) = MaxHandles
    /\ api_pc = "done"
    /\ ~IsSuccessful(Returned)
    /\ api_version(clients[MaxHandles]) = "v20.0"
    /\ base_url(clients[MaxHandles]) = "https://custom.api.com/v20.0/phone_123"

\* C26: the Debug text of a Client never exposes the access token: it is
\* built only from phone_number_id, api_version and base_url, so clients
\* that differ only in their access token format identically.
C26_DebugHidesToken ==
    IsSome(debug_out) =>
        /\ Unwrap(debug_out) =
              "Client { phone_number_id: \"" \o Supplied.phone_number_id
              \o "\", api_version: \"" \o Supplied.api_version
              \o "\", base_url: \"" \o Supplied.base_url \o "\" }"
        /\ \A t \in Tokens :
              DebugFmt([clients[1] EXCEPT !.access_token = t]) = Unwrap(debug_out)

\* test_client_debug's client was formatted
C26_Witness ==
    /\ IsSome(debug_out)
    /\ Unwrap(args) = Call("new", "secret_token", "phone_123", None, None)
    /\ Unwrap(debug_out) =
          "Client { phone_number_id: \"phone_123\", api_version: \"v21.0\", base_url: \"https://graph.facebook.com\" }"


(***************************************************************************)
(* Claims about the media operations, checked under SpecApi                *)
(***************************************************************************)
\* C30: local failures precede any network effect in the media operations:
\* upload_base64 with invalid base64 returns a MediaUpload error without
\* sending any HTTP request, and download sends the content request only
\* after get_url succeeded, returning get_url's error with no second
\* request otherwise.
C30_LocalFailuresSendNothing ==
    /\ (op = "upload_base64" /\ Unwrap(upload).data \in InvalidBase64) =>
          /\ requests = <<>>
          /\ api_pc \in {"decode", "done"}
          /\ api_pc = "done" =>
                (~IsSuccessful(Returned) /\ Returned.err.variant = "MediaUpload")
    /\ op = "download" =>
          /\ Len(requests) = 2 <=> IsSome(media_info)
          /\ (api_pc = "done" /\ media_info = None) =>
                /\ Len(requests) = 1
                /\ ~IsSuccessful(Returned)
                /\ (response # None /\ Returned # Failure(ErrorRequest)) =>
                      Returned = handle_response("MediaUrlResponse", Unwrap(response))

\* upload_base64("a$k=", ..) returned MediaUpload and nothing was sent
C30_Witness ==
    /\ op = "upload_base64"
    /\ Unwrap(upload).data = <<97, 36, 107, 61>>
    /\ api_pc = "done"
    /\ requests = <<>>
    /\ Returned = Failure(MediaUpload("Invalid base64: DecodeError"))


(***************************************************************************)
(* Claims about concurrent invocations, checked under SpecThreads          *)
(***************************************************************************)
\* what each call returns when it is the only one running
Alone ==
    [call \in ThreadCalls |->
        CASE call[1] = "verify_signature" ->
               VerifySignature(VerifyCalls[call[2]].payload,
                               VerifyCalls[call[2]].signature,
                               VerifyCalls[call[2]].app_secret)
          [] call[1] = "events" -> Events(EventsCalls[call[2]])
          [] call[1] = "from" -> ErrorFrom(FromCalls[call[2]])] @@ <<>>

\* C23: verify_signature, events() and the error classification hold no
\* shared mutable state: under any interleaving of concurrent invocations
\* each invocation returns the same result as when it runs alone.
C23_InterleavingDoesNotChangeResults ==
    \A t \in DOMAIN threads :
        threads[t].pc = "done" => threads[t].ret = Some(Alone[threads[t].call])

\* two verify_signature calls on different arguments ran interleaved and
\* returned true and false
C23_Witness ==
    /\ Len(threads) >= 2
    /\ threads[1].call = <<"verify_signature", 1>>
    /\ threads[2].call = <<"verify_signature", 2>>
    /\ threads[1].pc = "done" /\ threads[2].pc = "done"
    /\ threads[1].overlap /\ threads[2].overlap
    /\ threads[1].ret = Some(TRUE)
    /\ threads[2].ret = Some(FALSE)

=============================================================================
